---- MODULE Spec2Model ----
(***************************************************************************)
(* Task queue / event-streaming pipeline of the workflow execution core:   *)
(*   api/core/app/apps/base_app_queue_manager.py      (AppQueueManager)    *)
(*   api/core/app/apps/message_based_app_queue_manager.py                  *)
(*   api/core/app/apps/workflow_app_runner.py         (_handle_event)      *)
(*                                                                         *)
(* The specifications share the variables below:                           *)
(*   Spec      one manager, a producer thread publishing directly, the     *)
(*             listen() generator, the wall clock, the external stop flag; *)
(*   SpecLive  Spec with the fairness of the threads and of the consumer;  *)
(*   SpecOrder the same manager with a producer thread that feeds engine   *)
(*             events to _handle_event;                                    *)
(*   SpecStop  the Redis ownership record / stop flag across tasks, users  *)
(*             and roles (constructor, set_stop_flag, key expiry);         *)
(*   SpecCheck publish of events whose dumped data is nested;              *)
(*   SpecPing  Spec with a clock that runs past the execution time;        *)
(*   SpecEvents _handle_event on engine events with their attributes;      *)
(*   SpecTypes NodeType.value_of;                                          *)
(*   SpecGraph graph construction from a configuration document;           *)
(*   SpecStream _handle_invoke_result_stream on a stream of chunks;        *)
(*   SpecRedis RedisClientWrapper (ext_redis.py);                          *)
(*   SpecKeys  get_decrypt_decoding (libs/rsa.py) with its cache;          *)
(*   SpecTokens, SpecConvert, SpecMetadata, SpecInputs                     *)
(*             recalc_llm_max_tokens, the response converter and the       *)
(*             input validation of the app generator, each applied to      *)
(*             arguments drawn from bounded sets.                          *)
(***************************************************************************)
EXTENDS Integers, Sequences, FiniteSets, TLC

VARIABLES
    belong,         \* Redis: generate_task_belong:<task_id> -> owner identity
    stopflag,       \* Redis: generate_task_stopped:<task_id> present?
    log,            \* every item ever put on self._q, in put order
    head,           \* number of items already taken from self._q
    yielded,        \* items listen() has yielded to the consumer
    lpc,            \* position of the listen() generator
    lbreak,         \* listen(): the None sentinel was dequeued (break taken)
    lwaited,        \* listen(): q.get has been blocked for its 1 s timeout
    start_time,     \* listen(): start_time
    last_ping_time, \* listen(): last_ping_time
    elapsed_time,   \* listen(): elapsed_time of the current finally block
    lcause,         \* listen(): which disjunct of line 94 held (history)
    now,            \* wall clock, seconds
    ppc,            \* position of the producer thread inside publish
    pevent,         \* producer: the event being published
    ppub_from,      \* producer: pub_from of the call in progress
    presult,        \* producer: outcome of the last completed publish call
    handled,        \* engine events passed to _handle_event so far
    hfailed,        \* _handle_event raised: the event loop was left
    npub,           \* number of publish calls the producer has made
    owner,          \* SpecStop: who constructed the manager of a task
    call,           \* SpecStop: the last constructor / set_stop_flag call
    data,           \* SpecCheck: the dumped event data under construction
    graph_config,   \* SpecGraph: the graph configuration document (a dict)
    gresult,        \* SpecGraph: outcome of the last graph construction
    vresult,        \* SpecTypes: outcomes of the last two NodeType.value_of calls
    invoke_result,  \* SpecStream: the chunks the invoke result yields
    agent,          \* SpecStream: the agent argument
    sidx,           \* SpecStream: chunks the for loop has taken and finished
    text,           \* SpecStream: _handle_invoke_result_stream's text
    spc,            \* SpecStream: position in _handle_invoke_result_stream
    _client,        \* SpecRedis: RedisClientWrapper._client
    init_calls,     \* SpecRedis: the clients initialize was called with
    rresult,        \* SpecRedis: outcome of the last call or attribute access
    cache,          \* SpecKeys: the cached private keys, by tenant
    storage,        \* SpecKeys: the private key files, by tenant
    kresult,        \* SpecKeys: outcome of the last get_decrypt_decoding
    args,           \* the arguments of the function under study
    ret             \* what the function under study returned or raised

vars == <<belong, stopflag, log, head, yielded, lpc, lbreak, lwaited,
          start_time, last_ping_time, elapsed_time, lcause, now, ppc, pevent,
          ppub_from, presult, handled, hfailed, npub, owner, call, data,
          graph_config, gresult, vresult, invoke_result, agent, sidx,
          text, spc, _client, init_calls, rresult, cache, storage, kresult,
          args, ret>>

listenVars == <<head, yielded, lpc, lbreak, lwaited, start_time,
                last_ping_time, elapsed_time, lcause>>
prodVars == <<ppc, pevent, ppub_from, presult, handled, hfailed, npub>>
queueVars == <<log, listenVars, now, prodVars>>
redisVars == <<belong, stopflag>>
stopVars == <<owner, call>>
graphVars == <<graph_config, gresult, vresult>>
streamVars == <<invoke_result, agent, sidx, text, spc>>
libVars == <<_client, init_calls, rresult, cache, storage, kresult,
             args, ret>>
checkVars == <<data, graphVars, streamVars, libVars>>

----------------------------------------------------------------------------
(* Bounds of the model.                                                    *)

TickStep == 5           \* seconds that pass in one step of the wall clock
MaxPublish == 1         \* direct publish calls of the producer thread (Spec)
MaxHandle == 2          \* engine events fed to _handle_event (SpecOrder)
MaxDepth == 2           \* nesting depth of the dumped data in SpecCheck

(* dify_config.APP_MAX_EXECUTION_TIME is a PositiveInt setting (default    *)
(* 1200); the model runs with a small configured value so that the timeout *)
(* is reached after a few steps of the clock, and after the first ping.    *)
APP_MAX_EXECUTION_TIME == 12

(* Program constants.                                                      *)
PingInterval == 10      \* elapsed_time // 10
GetTimeout == 1         \* self._q.get(timeout=1)

----------------------------------------------------------------------------
(* Dumped event data: event.model_dump() is a dict whose values are        *)
(* leaves, dicts, lists or other containers (tuples, sets).                *)

Plain == [kind |-> "plain", items |-> <<>>]
SaInstance == [kind |-> "sa_instance", items |-> <<>>]  \* has _sa_instance_state
SaClass == [kind |-> "sa_class", items |-> <<>>]        \* a DeclarativeMeta
Leaves == {Plain, SaInstance, SaClass}
ContainerKinds == {"dict", "list", "tuple"}

Container(k, xs) == [kind |-> k, items |-> xs]

RECURSIVE _check_for_sqlalchemy_models_DictOnly(_)
(* The walk without its branch for lists.                                  *)
_check_for_sqlalchemy_models_DictOnly(d) ==
    IF d.kind = "dict"
      THEN \E i \in 1..Len(d.items) :
               _check_for_sqlalchemy_models_DictOnly(d.items[i])
    ELSE d.kind = "sa_class" \/ d.kind = "sa_instance"

RECURSIVE _check_for_sqlalchemy_models(_)
(* TRUE when the walk raises TypeError.  dict values and list items are    *)
(* walked; anything else is tested itself.                                 *)
_check_for_sqlalchemy_models(d) ==
    IF d.kind = "dict"
      THEN \E i \in 1..Len(d.items) : _check_for_sqlalchemy_models(d.items[i])
    ELSE IF d.kind = "list"
      THEN \E i \in 1..Len(d.items) : _check_for_sqlalchemy_models(d.items[i])
    ELSE d.kind = "sa_class" \/ d.kind = "sa_instance"

CleanData == Container("dict", <<Plain>>)
DirtyData == Container("dict", <<Plain, Container("list", <<SaInstance>>)>>)

----------------------------------------------------------------------------
(* Queue items.                                                            *)

NoCause == "none"

Message(type, pub_from, via, id, stopped_by, d) ==
    [type |-> type, pub_from |-> pub_from, via |-> via, id |-> id,
     stopped_by |-> stopped_by, data |-> d]

(* stop_listen puts None.                                                  *)
Sentinel == Message("None", "-", "-", 0, "-", Plain)

NoEvent == Message("-", "-", "-", 0, "-", Plain)

(* isinstance(event, QueueStopEvent | QueueErrorEvent |                    *)
(*            QueueMessageEndEvent | QueueAdvancedChatMessageEndEvent)     *)
TerminalTypes == {"QueueStopEvent", "QueueErrorEvent", "QueueMessageEndEvent",
                  "QueueAdvancedChatMessageEndEvent"}
IsTerminal(m) == m.type \in TerminalTypes

QueueEmpty == head = Len(log)

----------------------------------------------------------------------------
(* Redis ownership record and stop flag.                                   *)

Tasks == {"t1", "t2"}
UserIds == {"", "u1", "u2"}          \* "" is the falsy user_id
InvokeFrom == {"SERVICE_API", "WEB_APP", "EXPLORE", "DEBUGGER"}
NoRecord == "(nil)"                  \* redis_client.get(...) is None

user_prefix_NoRole(invoke_from) == "end-user"

user_prefix(invoke_from) ==
    IF invoke_from \in {"EXPLORE", "DEBUGGER"} THEN "account" ELSE "end-user"

(* f"{user_prefix}-{user_id}"                                              *)
Identity(invoke_from, user_id) == user_prefix(invoke_from) \o "-" \o user_id

(* AppQueueManager.__init__: TRUE when it raises ValueError.               *)
InitRaises(user_id) == user_id = ""

(* AppQueueManager.__init__: the ownership records after the call.         *)
InitBelong(b, task_id, user_id, invoke_from) ==
    IF InitRaises(user_id) THEN b
    ELSE [b EXCEPT ![task_id] = Identity(invoke_from, user_id)]

(* set_stop_flag without the comparison of the record with the caller.    *)
set_stop_flag_NoOwnerCheck(b, s, task_id, invoke_from, user_id) ==
    IF b[task_id] = NoRecord THEN s ELSE [s EXCEPT ![task_id] = TRUE]

(* AppQueueManager.set_stop_flag: the stop flags after the call.           *)
set_stop_flag(b, s, task_id, invoke_from, user_id) ==
    LET result == b[task_id] IN
    IF result = NoRecord THEN s
    ELSE IF result # Identity(invoke_from, user_id) THEN s
    ELSE [s EXCEPT ![task_id] = TRUE]

(* AppQueueManager._is_stopped for the manager's task.                     *)
TheTask == "t1"
TheUser == "u1"
TheInvokeFrom == "WEB_APP"
_is_stopped == stopflag[TheTask]

----------------------------------------------------------------------------
(* WorkflowBasedAppRunner._handle_event: engine event -> queue event.      *)

EngineTypes == {"GraphRunStartedEvent", "GraphRunSucceededEvent",
    "GraphRunFailedEvent", "NodeRunStartedEvent", "NodeRunSucceededEvent",
    "NodeRunFailedEvent", "NodeRunStreamChunkEvent",
    "NodeRunRetrieverResourceEvent", "ParallelBranchRunStartedEvent",
    "ParallelBranchRunSucceededEvent", "ParallelBranchRunFailedEvent",
    "IterationRunStartedEvent", "IterationRunNextEvent",
    "IterationRunSucceededEvent", "IterationRunFailedEvent",
    "GraphEngineEvent"}

(* The isinstance chain of _handle_event; "-" when no branch matches.      *)
QueueTypeOf(t) ==
    CASE t = "GraphRunStartedEvent" -> "QueueWorkflowStartedEvent"
      [] t = "GraphRunSucceededEvent" -> "QueueWorkflowSucceededEvent"
      [] t = "GraphRunFailedEvent" -> "QueueWorkflowFailedEvent"
      [] t = "NodeRunStartedEvent" -> "QueueNodeStartedEvent"
      [] t = "NodeRunSucceededEvent" -> "QueueNodeSucceededEvent"
      [] t = "NodeRunFailedEvent" -> "QueueNodeFailedEvent"
      [] t = "NodeRunStreamChunkEvent" -> "QueueTextChunkEvent"
      [] t = "NodeRunRetrieverResourceEvent" -> "QueueRetrieverResourcesEvent"
      [] t = "ParallelBranchRunStartedEvent" -> "QueueParallelBranchRunStartedEvent"
      [] t = "ParallelBranchRunSucceededEvent" -> "QueueParallelBranchRunSucceededEvent"
      [] t = "ParallelBranchRunFailedEvent" -> "QueueParallelBranchRunFailedEvent"
      [] t = "IterationRunStartedEvent" -> "QueueIterationStartEvent"
      [] t = "IterationRunNextEvent" -> "QueueIterationNextEvent"
      [] t = "IterationRunSucceededEvent" -> "QueueIterationCompletedEvent"
      [] t = "IterationRunFailedEvent" -> "QueueIterationCompletedEvent"
      [] OTHER -> "-"

(* _handle_event without its branch for GraphRunFailedEvent.               *)
_handle_event_NoGraphFailed(e) ==
    IF QueueTypeOf(e.type) = "-" \/ e.type = "GraphRunFailedEvent"
      THEN NoEvent
    ELSE Message(QueueTypeOf(e.type), "APPLICATION_MANAGER", "handle",
                 e.id, "-", e.data)

(* The queue event _handle_event builds for engine event e; NoEvent when   *)
(* the event is not recognised.  _publish_event publishes it with          *)
(* PublishFrom.APPLICATION_MANAGER.                                        *)
_handle_event(e) ==
    IF QueueTypeOf(e.type) = "-" THEN NoEvent
    ELSE Message(QueueTypeOf(e.type), "APPLICATION_MANAGER", "handle",
                 e.id, "-", e.data)

(* Engine events (type, dumped data) the producer of Spec draws from.      *)
EngineSample == {<<"NodeRunStartedEvent", CleanData>>,
                 <<"IterationRunFailedEvent", CleanData>>,
                 <<"NodeRunStartedEvent", DirtyData>>,
                 <<"GraphEngineEvent", CleanData>>}

(* Events published directly (base_app_runner, publish_error), with their  *)
(* pub_from.                                                               *)
PublishFrom == {"APPLICATION_MANAGER", "TASK_PIPELINE"}
DirectSample == {<<"QueueMessageEndEvent", "APPLICATION_MANAGER", CleanData>>,
                 <<"QueueErrorEvent", "TASK_PIPELINE", CleanData>>,
                 <<"QueueLLMChunkEvent", "APPLICATION_MANAGER", CleanData>>,
                 <<"QueueLLMChunkEvent", "APPLICATION_MANAGER", DirtyData>>}

----------------------------------------------------------------------------
(* MessageBasedAppQueueManager._publish, line 89: TRUE when it raises      *)
(* GenerateTaskStoppedError.                                               *)
StopCheckRaises_AnyOrigin(pub_from, is_stopped) == is_stopped

StopCheckRaises(pub_from, is_stopped) ==
    pub_from = "APPLICATION_MANAGER" /\ is_stopped

(* AppQueueManager.publish, line 138: TRUE when it raises TypeError.       *)
PublishRejects(event) == _check_for_sqlalchemy_models(event.data)

----------------------------------------------------------------------------
(* Initial values.                                                         *)

NoCall == [op |-> "none", task_id |-> "-", invoke_from |-> "-",
           user_id |-> "-", raised |-> FALSE]
NoOwner == [invoke_from |-> "-", user_id |-> "-"]
NoResult == [outcome |-> "none", pub_from |-> "-", via |-> "-",
             stopped |-> FALSE]

QueueInit ==
    /\ log = <<>> /\ head = 0 /\ yielded = <<>>
    /\ lpc = "init" /\ lbreak = FALSE /\ lwaited = FALSE
    /\ start_time = 0 /\ last_ping_time = 0 /\ elapsed_time = 0
    /\ lcause = NoCause /\ now = 0
    /\ ppc = "idle" /\ pevent = NoEvent /\ ppub_from = "-"
    /\ presult = NoResult
    /\ handled = <<>> /\ hfailed = FALSE /\ npub = 0

(* No graph is being built and no invoke result is being streamed.         *)
Null == "(None)"                      \* Python's None
NoGraphResult == [outcome |-> "none"]
NoConfig == [nodes |-> [list |-> <<>>], edges |-> [list |-> <<>>]]
NoCalls == [prev |-> NoGraphResult, last |-> NoGraphResult]

(* The wrapper is constructed (ext_redis.py line 26), nothing is cached    *)
(* and no function under study has been called.                            *)
TenantIds == {"t1", "t2"}
NoEntry == [value |-> Null, ttl |-> 0]    \* redis_client.get(...) is None
NoCalled == [outcome |-> "none"]

LibInit ==
    /\ _client = Null /\ init_calls = <<>> /\ rresult = NoCalled
    /\ cache = [t \in TenantIds |-> NoEntry]
    /\ storage = [t \in TenantIds |-> Null]
    /\ kresult = NoCalled
    /\ args = NoCalled /\ ret = NoCalled

RestInit ==
    /\ LibInit
    /\ graph_config = NoConfig
    /\ gresult = NoGraphResult
    /\ vresult = NoCalls
    /\ invoke_result = <<>> /\ agent = FALSE /\ sidx = 0
    /\ text = "" /\ spc = "none"

(* The manager of Spec has been constructed for TheTask by TheUser.        *)
ManagerInit ==
    /\ belong = InitBelong([t \in Tasks |-> NoRecord], TheTask, TheUser,
                           TheInvokeFrom)
    /\ stopflag = [t \in Tasks |-> FALSE]
    /\ QueueInit
    /\ owner = [t \in Tasks |-> NoOwner]
    /\ call = NoCall
    /\ data = Plain

Init == ManagerInit /\ RestInit

----------------------------------------------------------------------------
(* The producer thread: AppQueueManager.publish and                        *)
(* MessageBasedAppQueueManager._publish, one step per queue operation.     *)

(* A publish that puts its message twice.                                  *)
PublishCall_Twice(event, pub_from) ==
    /\ npub' = npub + 1
    /\ IF PublishRejects(event)
         THEN /\ presult' = [outcome |-> "TypeError", pub_from |-> pub_from,
                             via |-> event.via, stopped |-> _is_stopped]
              /\ hfailed' = (hfailed \/ event.via = "handle")
              /\ UNCHANGED <<log, ppc, pevent, ppub_from>>
         ELSE /\ log' = Append(Append(log, event), event)
              /\ ppc' = IF IsTerminal(event) THEN "stop_listen" ELSE "check"
              /\ pevent' = event
              /\ ppub_from' = pub_from
              /\ UNCHANGED <<presult, hfailed>>

(* publish(event, pub_from) up to its first queue operation: line 138     *)
(* raises TypeError, or _publish builds the message and puts it (line 80). *)
(* presult.stopped records the stop flag at the moment the call ended.     *)
PublishCall(event, pub_from) ==
    /\ npub' = npub + 1
    /\ IF PublishRejects(event)
         THEN /\ presult' = [outcome |-> "TypeError", pub_from |-> pub_from,
                             via |-> event.via, stopped |-> _is_stopped]
              /\ hfailed' = (hfailed \/ event.via = "handle")
              /\ UNCHANGED <<log, ppc, pevent, ppub_from>>
         ELSE /\ log' = Append(log, event)
              /\ ppc' = IF IsTerminal(event) THEN "stop_listen" ELSE "check"
              /\ pevent' = event
              /\ ppub_from' = pub_from
              /\ UNCHANGED <<presult, hfailed>>

(* for event in generator: self._handle_event(workflow_entry, event)       *)
HandleEvent(t, d) ==
    LET e == [type |-> t, id |-> Len(handled) + 1, data |-> d]
        qe == _handle_event(e) IN
    /\ ppc = "idle" /\ ~hfailed /\ Len(handled) < MaxHandle
    /\ handled' = Append(handled, e)
    /\ IF qe = NoEvent
         THEN /\ npub' = npub + 1
              /\ UNCHANGED <<log, ppc, pevent, ppub_from, presult, hfailed>>
         ELSE PublishCall(qe, "APPLICATION_MANAGER")
    /\ UNCHANGED <<listenVars, now, redisVars, stopVars, checkVars>>

(* queue_manager.publish(<event>, <pub_from>) from the app runner or       *)
(* publish_error.                                                          *)
DirectPublish(t, pub_from, d) ==
    /\ ppc = "idle" /\ npub < MaxPublish
    /\ PublishCall(Message(t, pub_from, "direct", 0, "-", d), pub_from)
    /\ UNCHANGED <<handled, listenVars, now, redisVars, stopVars, checkVars>>

(* A terminal publish that does not call stop_listen.                      *)
ProducerStopListen_NoSentinel ==
    /\ ppc = "stop_listen"
    /\ ppc' = "check"
    /\ UNCHANGED <<log, pevent, ppub_from, presult, handled, hfailed, npub>>
    /\ UNCHANGED <<listenVars, now, redisVars, stopVars, checkVars>>

(* _publish line 86: self.stop_listen()                                    *)
ProducerStopListen ==
    /\ ppc = "stop_listen"
    /\ log' = Append(log, Sentinel)
    /\ ppc' = "check"
    /\ UNCHANGED <<pevent, ppub_from, presult, handled, hfailed, npub>>
    /\ UNCHANGED <<listenVars, now, redisVars, stopVars, checkVars>>

(* _publish lines 89-90: the stop check, then the call returns or raises.  *)
ProducerCheck ==
    LET raises == StopCheckRaises(ppub_from, _is_stopped) IN
    /\ ppc = "check"
    /\ presult' = [outcome |-> IF raises THEN "GenerateTaskStoppedError"
                               ELSE "ok",
                   pub_from |-> ppub_from, via |-> pevent.via,
                   stopped |-> _is_stopped]
    /\ hfailed' = (hfailed \/ (raises /\ pevent.via = "handle"))
    /\ ppc' = "idle" /\ pevent' = NoEvent /\ ppub_from' = "-"
    /\ UNCHANGED <<handled, npub>>
    /\ UNCHANGED <<log, listenVars, now, redisVars, stopVars, checkVars>>

----------------------------------------------------------------------------
(* AppQueueManager.listen, the generator driven by the consumer.           *)

(* Line 94: elapsed_time >= listen_timeout or self._is_stopped()           *)
TimedOut(elapsed) == elapsed >= APP_MAX_EXECUTION_TIME

ShouldStop_And(elapsed, is_stopped) == TimedOut(elapsed) /\ is_stopped

ShouldStop(elapsed, is_stopped) == TimedOut(elapsed) \/ is_stopped

(* Line 98: the reason the synthesized QueueStopEvent carries.             *)
StopReason(timed_out, is_stopped) == "USER_MANUAL"

StopCause(timed_out, is_stopped) ==
    IF timed_out /\ is_stopped THEN "both"
    ELSE IF timed_out THEN "timeout"
    ELSE IF is_stopped THEN "flag" ELSE NoCause

StopEvent(cause) ==
    Message("QueueStopEvent", "TASK_PIPELINE", "listen", 0,
            StopReason(cause \in {"timeout", "both"}, cause \in {"flag", "both"}),
            CleanData)
PingEvent ==
    Message("QueuePingEvent", "TASK_PIPELINE", "listen", 0, "-", CleanData)

(* Lines 80-82: the consumer's first next() starts the generator.          *)
ListenStart ==
    /\ lpc = "init"
    /\ start_time' = now
    /\ last_ping_time' = 0
    /\ lpc' = "get" /\ lwaited' = FALSE
    /\ UNCHANGED <<head, yielded, lbreak, elapsed_time, lcause>>
    /\ UNCHANGED <<log, now, prodVars, redisVars, stopVars, checkVars>>

(* listen() that skips a None instead of breaking on it.                   *)
ListenGet_NoBreak ==
    /\ lpc = "get" /\ ~QueueEmpty
    /\ head' = head + 1
    /\ lwaited' = FALSE
    /\ IF log[head + 1] = Sentinel
         THEN lpc' = "finally" /\ UNCHANGED <<yielded, lbreak>>
         ELSE /\ yielded' = Append(yielded, log[head + 1])
              /\ lpc' = "yield" /\ UNCHANGED lbreak
    /\ UNCHANGED <<start_time, last_ping_time, elapsed_time, lcause>>
    /\ UNCHANGED <<log, now, prodVars, redisVars, stopVars, checkVars>>

(* Lines 85-89: q.get returns an item; None breaks, anything else is       *)
(* yielded and the generator is suspended.                                 *)
ListenGet ==
    /\ lpc = "get" /\ ~QueueEmpty
    /\ head' = head + 1
    /\ lwaited' = FALSE
    /\ IF log[head + 1] = Sentinel
         THEN lbreak' = TRUE /\ lpc' = "finally" /\ UNCHANGED yielded
         ELSE /\ yielded' = Append(yielded, log[head + 1])
              /\ lpc' = "yield" /\ UNCHANGED lbreak
    /\ UNCHANGED <<start_time, last_ping_time, elapsed_time, lcause>>
    /\ UNCHANGED <<log, now, prodVars, redisVars, stopVars, checkVars>>

(* Lines 90-91: q.get timed out on an empty queue (queue.Empty).           *)
ListenEmpty ==
    /\ lpc = "get" /\ QueueEmpty /\ lwaited
    /\ lpc' = "finally"
    /\ lwaited' = FALSE
    /\ UNCHANGED <<head, yielded, lbreak, start_time, last_ping_time,
                   elapsed_time, lcause>>
    /\ UNCHANGED <<log, now, prodVars, redisVars, stopVars, checkVars>>

(* The consumer asks for the next item: the generator resumes after the    *)
(* yield of line 89 and enters the finally block.                          *)
ListenResume ==
    /\ lpc = "yield"
    /\ lpc' = "finally"
    /\ UNCHANGED <<head, yielded, lbreak, lwaited, start_time,
                   last_ping_time, elapsed_time, lcause>>
    /\ UNCHANGED <<log, now, prodVars, redisVars, stopVars, checkVars>>

(* Lines 93-94: elapsed_time is computed and the stop condition is read.   *)
ListenFinally ==
    LET elapsed == now - start_time IN
    /\ lpc = "finally"
    /\ elapsed_time' = elapsed
    /\ IF ShouldStop(elapsed, _is_stopped)
         THEN /\ lpc' = "stop_put"
              /\ lcause' = StopCause(TimedOut(elapsed), _is_stopped)
         ELSE lpc' = "ping" /\ UNCHANGED lcause
    /\ UNCHANGED <<head, yielded, lbreak, lwaited, start_time, last_ping_time>>
    /\ UNCHANGED <<log, now, prodVars, redisVars, stopVars, checkVars>>

(* Lines 97-99 -> publish -> _publish line 80: the stop event is put.      *)
ListenStopPut ==
    /\ lpc = "stop_put"
    /\ IF PublishRejects(StopEvent(lcause))
         THEN lpc' = "raised" /\ UNCHANGED log
         ELSE /\ log' = Append(log, StopEvent(lcause))
              /\ lpc' = "stop_listen"
    /\ UNCHANGED <<head, yielded, lbreak, lwaited, start_time, last_ping_time,
                   elapsed_time, lcause>>
    /\ UNCHANGED <<now, prodVars, redisVars, stopVars, checkVars>>

(* _publish lines 86-90 for the stop event: the sentinel is put; the stop  *)
(* check does not read the flag for TASK_PIPELINE.                         *)
ListenStopListen ==
    /\ lpc = "stop_listen"
    /\ log' = Append(log, Sentinel)
    /\ lpc' = IF StopCheckRaises("TASK_PIPELINE", _is_stopped) THEN "raised"
              ELSE "ping"
    /\ lcause' = NoCause
    /\ UNCHANGED <<head, yielded, lbreak, lwaited, start_time, last_ping_time,
                   elapsed_time>>
    /\ UNCHANGED <<now, prodVars, redisVars, stopVars, checkVars>>

(* A ping that does not record its interval.                               *)
ListenPing_NoRecord ==
    /\ lpc = "ping"
    /\ IF elapsed_time \div PingInterval > last_ping_time
         THEN log' = Append(log, PingEvent)
         ELSE UNCHANGED log
    /\ lpc' = IF lbreak THEN "done" ELSE "get"
    /\ elapsed_time' = 0
    /\ UNCHANGED <<head, yielded, lbreak, lwaited, start_time, lcause,
                   last_ping_time>>
    /\ UNCHANGED <<now, prodVars, redisVars, stopVars, checkVars>>

(* Lines 101-103, then the loop continues or, after break, listen ends.    *)
(* elapsed_time is dead until the next finally block computes it again.    *)
ListenPing ==
    /\ lpc = "ping"
    /\ IF elapsed_time \div PingInterval > last_ping_time
         THEN /\ log' = Append(log, PingEvent)
              /\ last_ping_time' = elapsed_time \div PingInterval
         ELSE UNCHANGED <<log, last_ping_time>>
    /\ lpc' = IF lbreak THEN "done" ELSE "get"
    /\ elapsed_time' = 0
    /\ UNCHANGED <<head, yielded, lbreak, lwaited, start_time, lcause>>
    /\ UNCHANGED <<now, prodVars, redisVars, stopVars, checkVars>>

(* TickStep seconds pass (at least the q.get timeout): a q.get blocked on  *)
(* an empty queue reaches its timeout.  The clock is read only at line 93, *)
(* so time is let pass while listen() waits in q.get or at its yield; it   *)
(* stops advancing once the execution time is used up.                     *)
Tick ==
    /\ lpc \in {"get", "yield"}
    /\ TickStep >= GetTimeout
    /\ now' = IF now < APP_MAX_EXECUTION_TIME THEN now + TickStep ELSE now
    /\ lwaited' = IF lpc = "get" /\ QueueEmpty THEN TRUE ELSE lwaited
    /\ UNCHANGED <<head, yielded, lpc, lbreak, start_time, last_ping_time,
                   elapsed_time, lcause>>
    /\ UNCHANGED <<log, prodVars, redisVars, stopVars, checkVars>>

(* A cancel request handled by any worker: AppQueueManager.set_stop_flag.  *)
(* In Spec the requests come from the owner and from one other user.       *)
StopCallers == {TheUser, "u2"}

SetStopFlag(task_id, invoke_from, user_id) ==
    /\ stopflag' = set_stop_flag(belong, stopflag, task_id, invoke_from, user_id)
    /\ UNCHANGED <<belong, queueVars, stopVars, checkVars>>

Listen ==
    \/ ListenStart
    \/ ListenGet
    \/ ListenEmpty
    \/ ListenResume
    \/ ListenFinally
    \/ ListenStopPut
    \/ ListenStopListen
    \/ ListenPing

Cancel == \E u \in StopCallers : SetStopFlag(TheTask, TheInvokeFrom, u)

(* The producer thread inside a publish call it has started.               *)
Produce ==
    \/ ProducerStopListen
    \/ ProducerCheck

Next ==
    \/ \E e \in DirectSample : DirectPublish(e[1], e[2], e[3])
    \/ ProducerStopListen
    \/ ProducerCheck
    \/ ListenStart
    \/ ListenGet
    \/ ListenEmpty
    \/ ListenResume
    \/ ListenFinally
    \/ ListenStopPut
    \/ ListenStopListen
    \/ ListenPing
    \/ Tick
    \/ Cancel

Spec == Init /\ [][Next]_vars

(* A thread that is inside a call keeps running: the producer finishes the *)
(* publish it has started and the generator runs on; the consumer keeps    *)
(* pulling (ListenResume); the clock keeps running.  Nothing obliges the   *)
(* producer to start a publish or anyone to request a stop.                *)
SpecLive ==
    /\ Init /\ [][Next]_vars
    /\ WF_vars(Produce)
    /\ WF_vars(Listen)
    /\ WF_vars(Tick)

NextOrder ==
    \/ \E e \in EngineSample : HandleEvent(e[1], e[2])
    \/ ProducerCheck
    \/ ListenStart
    \/ ListenGet
    \/ ListenEmpty
    \/ ListenResume
    \/ ListenFinally
    \/ ListenStopPut
    \/ ListenStopListen
    \/ ListenPing
    \/ Tick
    \/ Cancel

SpecOrder == Init /\ [][NextOrder]_vars

----------------------------------------------------------------------------
(* SpecStop: managers are constructed for tasks by users under any         *)
(* invoke_from, any worker calls set_stop_flag with any identity, and the  *)
(* Redis keys expire (setex 1800 for the record, setex 600 for the flag).  *)
(* call is the call of the step just taken; owner is who constructed the   *)
(* task's manager last.                                                    *)

InitStop ==
    /\ belong = [t \in Tasks |-> NoRecord]
    /\ stopflag = [t \in Tasks |-> FALSE]
    /\ QueueInit
    /\ owner = [t \in Tasks |-> NoOwner]
    /\ call = NoCall
    /\ data = Plain
    /\ RestInit

(* AppQueueManager(task_id, user_id, invoke_from)                          *)
Construct(task_id, user_id, invoke_from) ==
    /\ belong' = InitBelong(belong, task_id, user_id, invoke_from)
    /\ owner' = IF InitRaises(user_id) THEN owner
                ELSE [owner EXCEPT ![task_id] =
                         [invoke_from |-> invoke_from, user_id |-> user_id]]
    /\ call' = [op |-> "init", task_id |-> task_id,
                invoke_from |-> invoke_from, user_id |-> user_id,
                raised |-> InitRaises(user_id)]
    /\ UNCHANGED <<stopflag, queueVars, checkVars>>

(* AppQueueManager.set_stop_flag(task_id, invoke_from, user_id)            *)
SetStopFlagCall(task_id, invoke_from, user_id) ==
    /\ stopflag' = set_stop_flag(belong, stopflag, task_id, invoke_from, user_id)
    /\ call' = [op |-> "set_stop_flag", task_id |-> task_id,
                invoke_from |-> invoke_from, user_id |-> user_id,
                raised |-> FALSE]
    /\ UNCHANGED <<belong, owner, queueVars, checkVars>>

(* The ownership record reaches its time to live.                          *)
ExpireBelong(task_id) ==
    /\ belong[task_id] # NoRecord
    /\ belong' = [belong EXCEPT ![task_id] = NoRecord]
    /\ call' = [NoCall EXCEPT !.op = "expire", !.task_id = task_id]
    /\ UNCHANGED <<stopflag, owner, queueVars, checkVars>>

(* The stop flag reaches its time to live.                                 *)
ExpireStopped(task_id) ==
    /\ stopflag[task_id]
    /\ stopflag' = [stopflag EXCEPT ![task_id] = FALSE]
    /\ call' = [NoCall EXCEPT !.op = "expire", !.task_id = task_id]
    /\ UNCHANGED <<belong, owner, queueVars, checkVars>>

NextStop ==
    \/ \E t \in Tasks, u \in UserIds, i \in InvokeFrom : Construct(t, u, i)
    \/ \E t \in Tasks, u \in UserIds, i \in InvokeFrom : SetStopFlagCall(t, i, u)
    \/ \E t \in Tasks : ExpireBelong(t)
    \/ \E t \in Tasks : ExpireStopped(t)

SpecStop == InitStop /\ [][NextStop]_vars

----------------------------------------------------------------------------
(* SpecCheck: the dumped data of an event is built from the inside out, a  *)
(* container around what there is with leaves beside it, and the event is  *)
(* then published by the producer thread.                                  *)

RECURSIVE Depth(_)
Depth(d) ==
    IF d.kind \in ContainerKinds
      THEN 1 + (CHOOSE n \in 0..MaxDepth :
                   /\ \A i \in 1..Len(d.items) : Depth(d.items[i]) <= n
                   /\ \E i \in 1..Len(d.items) : Depth(d.items[i]) = n)
      ELSE 0

LeftSiblings == {<<>>, <<Plain>>}
RightSiblings == {<<>>} \cup {<<l>> : l \in Leaves}

(* The value becomes an item of a dict, list or tuple.                     *)
Wrap(k, left, right) ==
    /\ npub = 0 /\ Depth(data) < MaxDepth
    /\ data' = Container(k, left \o <<data>> \o right)
    /\ UNCHANGED <<queueVars, redisVars, stopVars, graphVars, streamVars, libVars>>

(* Event types (with their pub_from) the built data is published under.    *)
CheckSample == {<<"QueueMessageEndEvent", "APPLICATION_MANAGER">>,
                <<"QueueTextChunkEvent", "APPLICATION_MANAGER">>}

(* queue_manager.publish(event, pub_from): event.model_dump() is a dict.   *)
PublishData(t, pub_from) ==
    /\ data.kind = "dict"
    /\ DirectPublish(t, pub_from, data)

NextCheck ==
    \/ \E k \in ContainerKinds, l \in LeftSiblings, r \in RightSiblings :
          Wrap(k, l, r)
    \/ \E e \in CheckSample : PublishData(e[1], e[2])
    \/ ProducerStopListen
    \/ ProducerCheck

SpecCheck == Init /\ [][NextCheck]_vars

----------------------------------------------------------------------------
(* SpecEvents: the attributes of the engine events and the keyword         *)
(* arguments _handle_event builds the queue events from.                   *)

EmptyMap == "{}"

(* event.route_node_state, with node_run_result None or a NodeRunResult.   *)
RouteNodeState(result) ==
    [start_at |-> 7, index |-> 3, node_run_result |-> result]

NodeRunResult(error) ==
    [inputs |-> "inputs", process_data |-> "process_data",
     outputs |-> "outputs", metadata |-> "metadata", error |-> error]

NoRunResult == [none |-> Null]       \* node_run_result is None
NodeRunResults ==
    {NoRunResult} \cup {NodeRunResult(x) : x \in {Null, "", "boom"}}

(* BaseNodeEvent / BaseParallelBranchEvent / BaseIterationEvent            *)
ParallelAttrs ==
    [parallel_id |-> "p1", parallel_start_node_id |-> "n0",
     parent_parallel_id |-> Null, parent_parallel_start_node_id |-> Null]

BaseNodeEvent(result) ==
    [id |-> "exec1", node_id |-> "n1", node_type |-> "llm",
     node_data |-> "node_data", route_node_state |-> RouteNodeState(result),
     in_iteration_id |-> Null] @@ ParallelAttrs

BaseParallelBranchEvent == [in_iteration_id |-> Null] @@ ParallelAttrs

BaseIterationEvent ==
    [iteration_id |-> "exec2", iteration_node_id |-> "n2",
     iteration_node_type |-> "iteration",
     iteration_node_data |-> "iteration_data"] @@ ParallelAttrs

IterationResultAttrs ==
    [start_at |-> 8, inputs |-> "inputs", outputs |-> "outputs",
     metadata |-> "metadata", steps |-> 2] @@ BaseIterationEvent

EngineEvent(t, attrs) == [type |-> t, data |-> CleanData, attrs |-> attrs]

(* Engine events, with the variants of their attributes the translation    *)
(* distinguishes.                                                          *)
EngineEvents ==
    {EngineEvent("GraphRunStartedEvent", [none |-> Null]),
     EngineEvent("GraphRunSucceededEvent", [outputs |-> "outputs"]),
     EngineEvent("GraphRunFailedEvent", [error |-> "boom"]),
     EngineEvent("NodeRunStartedEvent",
                 [predecessor_node_id |-> "n0"] @@ BaseNodeEvent(NoRunResult)),
     EngineEvent("NodeRunStreamChunkEvent",
                 [chunk_content |-> "chunk", from_variable_selector |-> Null]
                     @@ BaseNodeEvent(NoRunResult)),
     EngineEvent("NodeRunRetrieverResourceEvent",
                 [retriever_resources |-> "resources", context |-> "context"]
                     @@ BaseNodeEvent(NoRunResult)),
     EngineEvent("ParallelBranchRunStartedEvent", BaseParallelBranchEvent),
     EngineEvent("ParallelBranchRunSucceededEvent", BaseParallelBranchEvent),
     EngineEvent("ParallelBranchRunFailedEvent",
                 [error |-> "boom"] @@ BaseParallelBranchEvent),
     EngineEvent("IterationRunStartedEvent",
                 [start_at |-> 8, inputs |-> "inputs", metadata |-> "metadata",
                  predecessor_node_id |-> "n0"] @@ BaseIterationEvent),
     EngineEvent("IterationRunSucceededEvent", IterationResultAttrs),
     EngineEvent("IterationRunFailedEvent",
                 [error |-> "boom"] @@ IterationResultAttrs),
     EngineEvent("GraphEngineEvent", [none |-> Null]),
     [type |-> "NodeRunFailedEvent", data |-> DirtyData,
      attrs |-> [error |-> "boom"] @@ BaseNodeEvent(NodeRunResult("boom"))]}
    \cup {EngineEvent("NodeRunSucceededEvent", BaseNodeEvent(r)) :
            r \in {NoRunResult, NodeRunResult(Null)}}
    \cup {EngineEvent("NodeRunFailedEvent",
                      [error |-> "boom"] @@ BaseNodeEvent(r)) :
            r \in NodeRunResults}
    \cup {EngineEvent("IterationRunNextEvent",
                      [index |-> i, pre_iteration_output |-> o]
                          @@ BaseIterationEvent) :
            i \in {1, 2}, o \in {Null, "output"}}

(* workflow_entry.graph_engine.graph_runtime_state                         *)
graph_runtime_state == [node_run_steps |-> 5]

(* Python truth of an optional value or string.                            *)
Truthy(x) == x # Null /\ x # ""

(* The four parallel keyword arguments every branch but the graph-level    *)
(* ones copies from the event.                                             *)
ParallelArgs(a) ==
    [parallel_id |-> a.parallel_id,
     parallel_start_node_id |-> a.parallel_start_node_id,
     parent_parallel_id |-> a.parent_parallel_id,
     parent_parallel_start_node_id |-> a.parent_parallel_start_node_id]

NodeArgs_NoExecutionId(a) ==
    [node_id |-> a.node_id, node_type |-> a.node_type,
     node_data |-> a.node_data]

(* node_execution_id, node_id, node_type, node_data of the node branches   *)
(* and of the iteration branches.                                          *)
NodeArgs(a) ==
    [node_execution_id |-> a.id, node_id |-> a.node_id,
     node_type |-> a.node_type, node_data |-> a.node_data]

IterationArgs(a) ==
    [node_execution_id |-> a.iteration_id, node_id |-> a.iteration_node_id,
     node_type |-> a.iteration_node_type,
     node_data |-> a.iteration_node_data]

(* <x> if event.route_node_state.node_run_result else {}                   *)
ResultOr(a, field) ==
    IF a.route_node_state.node_run_result # NoRunResult
      THEN a.route_node_state.node_run_result[field]
      ELSE EmptyMap

(* The error taken from the result whenever there is a result.             *)
NodeFailedError_NoDefault(a) ==
    IF a.route_node_state.node_run_result # NoRunResult
      THEN a.route_node_state.node_run_result.error
      ELSE "Unknown error"

(* Lines 277-279: the error of a QueueNodeFailedEvent.                     *)
NodeFailedError(a) ==
    IF a.route_node_state.node_run_result # NoRunResult
       /\ Truthy(a.route_node_state.node_run_result.error)
      THEN a.route_node_state.node_run_result.error
      ELSE "Unknown error"

IterationError_Never(e) == Null

(* Line 379: the error of a QueueIterationCompletedEvent.                  *)
IterationError(e) ==
    IF e.type = "IterationRunFailedEvent" THEN e.attrs.error ELSE Null

(* The keyword arguments of the queue event _handle_event constructs for   *)
(* engine event e (lines 204-381).                                         *)
QueueEventFields(e) ==
    LET a == e.attrs IN
    CASE e.type = "GraphRunStartedEvent" ->
           [graph_runtime_state |-> graph_runtime_state]
      [] e.type = "GraphRunSucceededEvent" -> [outputs |-> a.outputs]
      [] e.type = "GraphRunFailedEvent" -> [error |-> a.error]
      [] e.type = "NodeRunStartedEvent" ->
           [start_at |-> a.route_node_state.start_at,
            node_run_index |-> a.route_node_state.index,
            predecessor_node_id |-> a.predecessor_node_id,
            in_iteration_id |-> a.in_iteration_id]
               @@ NodeArgs(a) @@ ParallelArgs(a)
      [] e.type = "NodeRunSucceededEvent" ->
           [start_at |-> a.route_node_state.start_at,
            inputs |-> ResultOr(a, "inputs"),
            process_data |-> ResultOr(a, "process_data"),
            outputs |-> ResultOr(a, "outputs"),
            execution_metadata |-> ResultOr(a, "metadata"),
            in_iteration_id |-> a.in_iteration_id]
               @@ NodeArgs(a) @@ ParallelArgs(a)
      [] e.type = "NodeRunFailedEvent" ->
           [start_at |-> a.route_node_state.start_at,
            inputs |-> ResultOr(a, "inputs"),
            process_data |-> ResultOr(a, "process_data"),
            outputs |-> ResultOr(a, "outputs"),
            error |-> NodeFailedError(a),
            in_iteration_id |-> a.in_iteration_id]
               @@ NodeArgs(a) @@ ParallelArgs(a)
      [] e.type = "NodeRunStreamChunkEvent" ->
           [text |-> a.chunk_content,
            from_variable_selector |-> a.from_variable_selector,
            in_iteration_id |-> a.in_iteration_id]
      [] e.type = "NodeRunRetrieverResourceEvent" ->
           [retriever_resources |-> a.retriever_resources,
            in_iteration_id |-> a.in_iteration_id]
      [] e.type \in {"ParallelBranchRunStartedEvent",
                     "ParallelBranchRunSucceededEvent"} ->
           [in_iteration_id |-> a.in_iteration_id] @@ ParallelArgs(a)
      [] e.type = "ParallelBranchRunFailedEvent" ->
           [in_iteration_id |-> a.in_iteration_id, error |-> a.error]
               @@ ParallelArgs(a)
      [] e.type = "IterationRunStartedEvent" ->
           [start_at |-> a.start_at,
            node_run_index |-> graph_runtime_state.node_run_steps,
            inputs |-> a.inputs,
            predecessor_node_id |-> a.predecessor_node_id,
            metadata |-> a.metadata]
               @@ IterationArgs(a) @@ ParallelArgs(a)
      [] e.type = "IterationRunNextEvent" ->
           [index |-> a.index,
            node_run_index |-> graph_runtime_state.node_run_steps,
            output |-> a.pre_iteration_output]
               @@ IterationArgs(a) @@ ParallelArgs(a)
      [] e.type \in {"IterationRunSucceededEvent",
                     "IterationRunFailedEvent"} ->
           [start_at |-> a.start_at,
            node_run_index |-> graph_runtime_state.node_run_steps,
            inputs |-> a.inputs, outputs |-> a.outputs,
            metadata |-> a.metadata, steps |-> a.steps,
            error |-> IterationError(e)]
               @@ IterationArgs(a) @@ ParallelArgs(a)
      [] OTHER -> [none |-> Null]

(* The queue event of _handle_event with its keyword arguments.            *)
QueueEventOf(e) ==
    IF _handle_event(e) = NoEvent THEN NoEvent
    ELSE [fields |-> QueueEventFields(e)] @@ _handle_event(e)

(* self._handle_event(workflow_entry, event) for an engine event with its  *)
(* attributes.                                                             *)
HandleEngineEvent(ev) ==
    LET e == [id |-> Len(handled) + 1] @@ ev
        qe == QueueEventOf(e) IN
    /\ ppc = "idle" /\ ~hfailed /\ Len(handled) < MaxHandle
    /\ handled' = Append(handled, e)
    /\ IF qe = NoEvent
         THEN /\ npub' = npub + 1
              /\ UNCHANGED <<log, ppc, pevent, ppub_from, presult, hfailed>>
         ELSE PublishCall(qe, "APPLICATION_MANAGER")
    /\ UNCHANGED <<listenVars, now, redisVars, stopVars, checkVars>>

NextEvents ==
    \/ \E ev \in EngineEvents : HandleEngineEvent(ev)
    \/ ProducerCheck
    \/ Cancel

SpecEvents == Init /\ [][NextEvents]_vars

TypeOK ==
    /\ head \in 0..Len(log)
    /\ lpc \in {"init", "get", "yield", "finally", "stop_put", "stop_listen",
                "ping", "done", "raised"}
    /\ ppc \in {"idle", "stop_listen", "check"}
    /\ ppub_from \in PublishFrom \cup {"-"}
    /\ now \in 0..(APP_MAX_EXECUTION_TIME + TickStep)

----------------------------------------------------------------------------
(* What the consumer has observed.                                         *)

TerminalsSeen == {i \in 1..Len(yielded) : IsTerminal(yielded[i])}
ListenEnded == lpc = "done"

(* C1: when listen() has ended, the consumer has observed exactly one      *)
(* terminal event (stop, error or message end).                            *)
C1_ExactlyOneTerminal ==
    ListenEnded => Cardinality(TerminalsSeen) = 1

(* C2: listen() yields nothing after a terminal event: a terminal event is *)
(* always the last item the consumer has been given.                       *)
C2_NothingAfterTerminal ==
    \A i \in 1..Len(yielded) : IsTerminal(yielded[i]) => i = Len(yielded)

----------------------------------------------------------------------------
(* The sentinel and what lies behind it.                                   *)

HasSentinel == \E i \in 1..Len(log) : log[i] = Sentinel

(* Position of the first None in the queue's history (Len(log) + 1 when    *)
(* stop_listen has not been called yet).                                   *)
FirstSentinel ==
    IF HasSentinel
      THEN CHOOSE i \in 1..Len(log) :
               log[i] = Sentinel /\ \A j \in 1..(i - 1) : log[j] # Sentinel
      ELSE Len(log) + 1

----------------------------------------------------------------------------
(* The outcome of the producer's last publish call.                        *)

PublishEnded == presult.outcome # "none"
RaisedStopped == presult.outcome = "GenerateTaskStoppedError"

(* C5 as stated: a publish call with origin APPLICATION_MANAGER made while *)
(* the stop flag is set raises GenerateTaskStoppedError, and a publish     *)
(* call with origin TASK_PIPELINE never raises it.                         *)
C5_StoppedAlwaysRaises ==
    PublishEnded =>
        /\ (presult.pub_from = "APPLICATION_MANAGER" /\ presult.stopped)
               => RaisedStopped
        /\ presult.pub_from = "TASK_PIPELINE" => ~RaisedStopped

(* C5 amended: a publish call that gets past the SQLAlchemy check (it does *)
(* not raise TypeError) raises GenerateTaskStoppedError exactly when its   *)
(* origin is APPLICATION_MANAGER and the stop flag is set when _publish    *)
(* reads it; the publishes listen() makes itself (TASK_PIPELINE) never     *)
(* raise.                                                                  *)
C5_RaisesIffManagerAndStopped ==
    /\ (PublishEnded /\ presult.outcome # "TypeError") =>
           (RaisedStopped <=>
               (presult.pub_from = "APPLICATION_MANAGER" /\ presult.stopped))
    /\ lpc # "raised"

(* An APPLICATION_MANAGER publish was interrupted by the stop flag, and    *)
(* listen() has published its own stop event without raising.              *)
C5_Witness ==
    /\ RaisedStopped
    /\ presult.pub_from = "APPLICATION_MANAGER"
    /\ \E i \in 1..Len(log) :
           log[i].type = "QueueStopEvent" /\ log[i].via = "listen"
    /\ ListenEnded

----------------------------------------------------------------------------
(* The stop event listen() synthesizes.                                    *)

ListenStops ==
    {i \in 1..Len(log) :
        log[i].type = "QueueStopEvent" /\ log[i].via = "listen"}

(* The stop event listen() has put last.                                   *)
LastListenStop == log[CHOOSE i \in ListenStops : \A j \in ListenStops : j <= i]

(* C7: the stop event listen() has just put because the execution time ran *)
(* out (the stop flag not being set) carries a stopped_by reason other     *)
(* than the one of a stop event put because the flag was set.              *)
C7_TimeoutReasonDiffers ==
    (lpc = "stop_listen" /\ lcause = "timeout") =>
        LastListenStop.stopped_by # StopReason(FALSE, TRUE)

----------------------------------------------------------------------------
(* Stopping a listen() that is being iterated.                             *)

(* The consumer is inside listen(): the generator has started and has not  *)
(* returned.                                                               *)
ListenIterating == lpc \notin {"init", "done", "raised"}

(* The stop flag is set, or the execution time is used up.                 *)
StopDue == _is_stopped \/ TimedOut(now - start_time)

(* A stop event of listen() reaches the consumer unless a terminal event   *)
(* precedes it in the queue.                                               *)
StopYieldedOrPreceded ==
    \A i \in ListenStops :
        \/ i <= Len(yielded) /\ yielded[i] = log[i]
        \/ \E k \in 1..(i - 1) : IsTerminal(log[k])

(* C6 as stated: whenever a stop is due while the consumer is inside       *)
(* listen(), listen() eventually publishes a QueueStopEvent and eventually *)
(* ends, and the stop event has then been yielded unless a terminal event  *)
(* precedes it.                                                            *)
C6_StopEventuallyPublished ==
    /\ (ListenIterating /\ StopDue) ~> (ListenStops # {})
    /\ (ListenIterating /\ StopDue) ~> ListenEnded
    /\ [](ListenEnded => StopYieldedOrPreceded)

(* C6 amended: the same, for a stop that is due before listen() has taken  *)
(* the None that ends it; a stop flag set after the last pass of listen()  *)
(* through line 94 goes unanswered.                                        *)
C6_StopBeforeSentinelPublished ==
    /\ (ListenIterating /\ ~lbreak /\ StopDue) ~> (ListenStops # {})
    /\ (ListenIterating /\ ~lbreak /\ StopDue) ~> ListenEnded
    /\ [](ListenEnded => StopYieldedOrPreceded)

(* The stop flag was set while listen() was waiting for an item; listen()  *)
(* has published its stop event, yielded it and ended.                     *)
C6_Witness ==
    /\ ListenEnded
    /\ _is_stopped
    /\ now - start_time < APP_MAX_EXECUTION_TIME
    /\ \E i \in ListenStops : i <= Len(yielded) /\ yielded[i] = log[i]

----------------------------------------------------------------------------
(* Engine events and the queue events the consumer observes for them.      *)

(* The queue events of _handle_event among what listen() has yielded.      *)
HandleYielded == SelectSeq(yielded, LAMBDA m : m.via = "handle")

(* The engine events _handle_event has a branch for, in the order they     *)
(* were passed to it.                                                      *)
RecognisedHandled ==
    SelectSeq(handled, LAMBDA e : e.type \in EngineTypes \ {"GraphEngineEvent"})

(* C10: what the consumer observes of the engine's events is, one queue    *)
(* event per recognised engine event and in the same order, a prefix of    *)
(* the events passed to _handle_event: nothing reordered, nothing twice.   *)
C10_CausalOrder ==
    /\ Len(HandleYielded) <= Len(RecognisedHandled)
    /\ \A k \in 1..Len(HandleYielded) :
           /\ HandleYielded[k].id = RecognisedHandled[k].id
           /\ HandleYielded[k] = _handle_event(RecognisedHandled[k])

(* Two engine events of different types were handled and the consumer has  *)
(* observed the queue events of both.                                      *)
C10_Witness ==
    /\ Len(HandleYielded) = 2
    /\ HandleYielded[1].type # HandleYielded[2].type
    /\ HandleYielded[1].id < HandleYielded[2].id

----------------------------------------------------------------------------
(* Ownership of a task and the right to stop it.                           *)

Account == {"EXPLORE", "DEBUGGER"}

(* C4: a set_stop_flag call returns without raising and leaves the         *)
(* ownership records alone; it sets the stop flag of its task when a       *)
(* record exists for the task and equals "<role>-<user_id>" of the caller, *)
(* and leaves every stop flag as it was in all other cases.                *)
C4_StopFlagIffOwner ==
    [][call'.op = "set_stop_flag" =>
        LET t == call'.task_id
            role == IF call'.invoke_from \in Account THEN "account"
                    ELSE "end-user"
            caller == role \o "-" \o call'.user_id IN
        /\ ~call'.raised
        /\ belong' = belong
        /\ IF belong[t] # NoRecord /\ belong[t] = caller
             THEN stopflag' = [stopflag EXCEPT ![t] = TRUE]
             ELSE stopflag' = stopflag]_vars

(* The owner has stopped its task, under another invoke_from of the same   *)
(* role class than the one the manager was constructed with.               *)
C4_Witness ==
    /\ call.op = "set_stop_flag" /\ call.task_id = "t2"
    /\ owner["t2"] = [invoke_from |-> "EXPLORE", user_id |-> "u2"]
    /\ call.invoke_from = "DEBUGGER" /\ call.user_id = "u2"
    /\ belong["t2"] = "account-u2"
    /\ stopflag["t2"]

(* C9: the constructor records "account-<user_id>" for EXPLORE and         *)
(* DEBUGGER and "end-user-<user_id>" otherwise, and a set_stop_flag call   *)
(* for a task made with another user id than the one of the task's         *)
(* constructor, or with the same user id under the other role class, sets  *)
(* no stop flag.                                                           *)
C9_OwnerBinding ==
    [][/\ (call'.op = "init" /\ ~call'.raised) =>
            belong'[call'.task_id] =
                (IF call'.invoke_from \in Account THEN "account-"
                 ELSE "end-user-") \o call'.user_id
       /\ (call'.op = "set_stop_flag" /\ owner[call'.task_id] # NoOwner) =>
            LET o == owner[call'.task_id] IN
            (\/ call'.user_id # o.user_id
             \/ (call'.invoke_from \in Account) # (o.invoke_from \in Account))
                => stopflag' = stopflag]_vars

(* The user who constructed the manager as an end user asked to stop the   *)
(* task as an account while the record was there: the flag is not set.     *)
C9_Witness ==
    /\ call.op = "set_stop_flag" /\ call.task_id = "t1"
    /\ owner["t1"] = [invoke_from |-> "SERVICE_API", user_id |-> "u1"]
    /\ call.user_id = "u1" /\ call.invoke_from = "EXPLORE"
    /\ belong["t1"] = "end-user-u1"
    /\ ~stopflag["t1"]

----------------------------------------------------------------------------
(* Events that carry SQLAlchemy models.                                    *)

(* The values found in d at any depth of nested dicts and lists.           *)
RECURSIVE Nested(_)
Nested(d) ==
    {d} \cup (IF d.kind \in {"dict", "list"}
               THEN UNION {Nested(d.items[i]) : i \in 1..Len(d.items)}
               ELSE {})

(* A SQLAlchemy model (an object with _sa_instance_state, or a declarative *)
(* class) is found in d at some depth of nested dicts and lists.           *)
CarriesModel(d) == \E x \in Nested(d) : x.kind \in {"sa_instance", "sa_class"}

(* C8: a publish call for an event whose dumped data carries a SQLAlchemy  *)
(* model at any depth of nested dicts and lists raises TypeError and       *)
(* leaves the queue as it was, with no None to come; for any other event   *)
(* the call puts the event on the queue.                                   *)
C8_RejectsModels ==
    [][npub' = npub + 1 =>
        IF CarriesModel(data)
          THEN /\ presult'.outcome = "TypeError"
               /\ log' = log
               /\ ppc' = "idle"
          ELSE /\ Len(log') = Len(log) + 1
               /\ SubSeq(log', 1, Len(log)) = log
               /\ log'[Len(log')].data = data
               /\ log'[Len(log')].type \in {e[1] : e \in CheckSample}]_vars

(* A message-end event with a model instance in a list in its dict was     *)
(* refused: the queue is empty and no None is on its way.                  *)
C8_Witness ==
    /\ presult.outcome = "TypeError" /\ npub = 1
    /\ log = <<>> /\ ppc = "idle"
    /\ data.kind = "dict"
    /\ \E i \in 1..Len(data.items) :
           /\ data.items[i].kind = "list"
           /\ \E j \in 1..Len(data.items[i].items) :
                  data.items[i].items[j].kind = "sa_instance"

----------------------------------------------------------------------------
(* Engine events and their queue events, attribute by attribute.           *)

(* The queue events of _handle_event on the queue, as positions of log.    *)
Handles == {i \in 1..Len(log) : log[i].via = "handle"}

(* The engine event the queue event at position i was built from.          *)
EngineOf(i) == handled[log[i].id]

HandleEnded == ppc = "idle" /\ handled # <<>>
LastHandled == handled[Len(handled)]

FailedTypes == {"NodeRunFailedEvent", "IterationRunFailedEvent",
                "ParallelBranchRunFailedEvent", "GraphRunFailedEvent"}

FailureQueueType(t) ==
    CASE t = "NodeRunFailedEvent" -> "QueueNodeFailedEvent"
      [] t = "IterationRunFailedEvent" -> "QueueIterationCompletedEvent"
      [] t = "ParallelBranchRunFailedEvent" -> "QueueParallelBranchRunFailedEvent"
      [] t = "GraphRunFailedEvent" -> "QueueWorkflowFailedEvent"

(* C11: a _handle_event call for a failure event has put the corresponding *)
(* queue event and returned, or it has raised GenerateTaskStoppedError     *)
(* with the stop flag set (the queue event being put), or TypeError for    *)
(* data that carries a model; no _handle_event call raises anything else.  *)
C11_FailuresArePublished ==
    /\ (HandleEnded /\ LastHandled.type \in FailedTypes) =>
          /\ presult.via = "handle"
          /\ presult.outcome \in {"ok", "GenerateTaskStoppedError", "TypeError"}
          /\ hfailed <=> presult.outcome # "ok"
          /\ presult.outcome = "GenerateTaskStoppedError" => presult.stopped
          /\ presult.outcome = "TypeError" => CarriesModel(LastHandled.data)
          /\ presult.outcome # "TypeError" =>
                \E i \in Handles :
                    /\ log[i].id = LastHandled.id
                    /\ log[i].type = FailureQueueType(LastHandled.type)
    /\ hfailed => presult.outcome \in {"GenerateTaskStoppedError", "TypeError"}

(* A node failure and a graph failure were handled and both calls          *)
(* returned: their queue events are on the queue.                          *)
C11_Witness ==
    /\ HandleEnded /\ ~hfailed /\ Len(handled) = 2
    /\ handled[1].type = "NodeRunFailedEvent"
    /\ handled[2].type = "GraphRunFailedEvent"
    /\ presult.outcome = "ok"
    /\ Len(log) = 2 /\ log[2].type = "QueueWorkflowFailedEvent"

RequiredFields == {"node_execution_id", "node_id", "node_type", "start_at"}

NodeScopedTypes ==
    {"QueueNodeStartedEvent", "QueueNodeSucceededEvent",
     "QueueNodeFailedEvent", "QueueTextChunkEvent",
     "QueueRetrieverResourcesEvent", "QueueIterationStartEvent",
     "QueueIterationNextEvent", "QueueIterationCompletedEvent"}

C19_NodeFailedError ==
    \A i \in Handles :
        EngineOf(i).type = "NodeRunFailedEvent" =>
            LET f == log[i].fields
                r == EngineOf(i).attrs.route_node_state.node_run_result IN
            /\ log[i].type = "QueueNodeFailedEvent"
            /\ f.error # Null /\ f.error # ""
            /\ IF r # NoRunResult /\ r.error # Null /\ r.error # ""
                 THEN f.error = r.error
                 ELSE f.error = "Unknown error"
            /\ r = NoRunResult =>
                  /\ f.inputs = EmptyMap
                  /\ f.process_data = EmptyMap
                  /\ f.outputs = EmptyMap

(* A failure whose result has an empty error and a failure without result  *)
(* were both reported as 'Unknown error'.                                  *)
C19_Witness ==
    /\ \E i \in Handles :
          /\ EngineOf(i).type = "NodeRunFailedEvent"
          /\ EngineOf(i).attrs.route_node_state.node_run_result
                 = NodeRunResult("")
          /\ log[i].fields.error = "Unknown error"
    /\ \E i \in Handles :
          /\ EngineOf(i).type = "NodeRunFailedEvent"
          /\ EngineOf(i).attrs.route_node_state.node_run_result = NoRunResult
          /\ log[i].fields.inputs = EmptyMap

(* C20: the queue event of an IterationRunNextEvent is a                   *)
(* QueueIterationNextEvent with the event's index and the previous pass's  *)
(* output; the queue event of an IterationRunSucceededEvent or             *)
(* IterationRunFailedEvent is one QueueIterationCompletedEvent, whose      *)
(* error is not None exactly for IterationRunFailedEvent.                  *)
C20_IterationEvents ==
    /\ \A i \in Handles :
          LET e == EngineOf(i)
              f == log[i].fields IN
          /\ e.type = "IterationRunNextEvent" =>
                /\ log[i].type = "QueueIterationNextEvent"
                /\ f.index = e.attrs.index
                /\ f.output = e.attrs.pre_iteration_output
          /\ e.type \in {"IterationRunSucceededEvent",
                         "IterationRunFailedEvent"} =>
                /\ log[i].type = "QueueIterationCompletedEvent"
                /\ (f.error # Null) <=> (e.type = "IterationRunFailedEvent")
          /\ log[i].type = "QueueIterationCompletedEvent" =>
                e.type \in {"IterationRunSucceededEvent",
                            "IterationRunFailedEvent"}
    /\ \A i, j \in Handles : log[i].id = log[j].id => i = j

(* A succeeded and a failed iteration were both reported as completed.     *)
C20_Witness ==
    /\ \E i \in Handles :
          /\ EngineOf(i).type = "IterationRunSucceededEvent"
          /\ log[i].fields.error = Null
    /\ \E i \in Handles :
          /\ EngineOf(i).type = "IterationRunFailedEvent"
          /\ log[i].fields.error = "boom"

----------------------------------------------------------------------------
(* SpecTypes: NodeType.value_of (node_entities.py).                        *)

(* The members of NodeType and their values, lines 17-34.                  *)
NodeType ==
    [START |-> "start", END |-> "end", ANSWER |-> "answer", LLM |-> "llm",
     KNOWLEDGE_RETRIEVAL |-> "knowledge-retrieval", IF_ELSE |-> "if-else",
     CODE |-> "code", TEMPLATE_TRANSFORM |-> "template-transform",
     QUESTION_CLASSIFIER |-> "question-classifier",
     HTTP_REQUEST |-> "http-request", TOOL |-> "tool",
     VARIABLE_AGGREGATOR |-> "variable-aggregator",
     VARIABLE_ASSIGNER |-> "variable-assigner", LOOP |-> "loop",
     ITERATION |-> "iteration", ITERATION_START |-> "iteration-start",
     PARAMETER_EXTRACTOR |-> "parameter-extractor",
     CONVERSATION_VARIABLE_ASSIGNER |-> "assigner"]

NoMember == "ValueError"

(* A value_of that answers with the first member whatever the value.       *)
value_of_FirstMember(value) == "START"

(* Lines 37-49: the member whose value is the given one, or ValueError.    *)
value_of(value) ==
    IF \E node_type \in DOMAIN NodeType : NodeType[node_type] = value
      THEN CHOOSE node_type \in DOMAIN NodeType : NodeType[node_type] = value
      ELSE NoMember

(* The values value_of is called with: every value of a member, the tag    *)
(* 'conversation-variable-assigner', and strings that are no tag.          *)
Values ==
    {NodeType[m] : m \in DOMAIN NodeType}
        \cup {"conversation-variable-assigner", "bogus", "", "START"}

ValueOfResult(value) ==
    IF value_of(value) = NoMember
      THEN [outcome |-> "ValueError", value |-> value]
      ELSE [outcome |-> "ok", value |-> value, member |-> value_of(value)]

ValueOf(value) ==
    /\ vresult' = [prev |-> vresult.last, last |-> ValueOfResult(value)]
    /\ UNCHANGED <<queueVars, redisVars, stopVars, data, graph_config,
                   gresult, streamVars, libVars>>

NextTypes == \E value \in Values : ValueOf(value)

SpecTypes == Init /\ [][NextTypes]_vars

----------------------------------------------------------------------------
(* SpecGraph: WorkflowBasedAppRunner._init_graph and                       *)
(* _get_graph_and_variable_pool_of_single_iteration                        *)
(* (workflow_app_runner.py), over configuration documents of at most       *)
(* MaxNodes nodes and MaxEdges edges.                                      *)

MaxNodes == 2
MaxEdges == 1

NodeIds == {"a", "b"}

(* A node of the document: its id, and data with or without iteration_id.  *)
NodeConfigs ==
    {[id |-> i, data |-> d] :
        i \in NodeIds,
        d \in {[type |-> "iteration"],
               [type |-> "iteration", iteration_id |-> "a"]}}

(* An edge of the document; a source or target that is None or absent is   *)
(* Null (edge.get(...) is None).                                           *)
EdgeConfigs ==
    {[source |-> x, target |-> y] : x, y \in NodeIds \cup {Null}}

SeqsUpTo(S, n) == UNION {[1..k -> S] : k \in 0..n}

(* The value under a key of the document: a list, something that is not a  *)
(* list, or nothing (the key is not in the document).                      *)
ListValue(xs) == [list |-> xs]
NotAList == [str |-> "x"]
Missing == [missing |-> TRUE]
IsList(v) == "list" \in DOMAIN v

Configs ==
    [nodes : {Missing, NotAList}
                \cup {ListValue(xs) : xs \in SeqsUpTo(NodeConfigs, MaxNodes)},
     edges : {Missing, NotAList}
                \cup {ListValue(xs) : xs \in SeqsUpTo(EdgeConfigs, MaxEdges)}]

(* graph_config.get(key, []) where the checks have passed.                 *)
Items(v) == IF IsList(v) THEN v.list ELSE <<>>

(* The node_id arguments; "" is the empty string.                          *)
RootIds == NodeIds \cup {""}

(* The checks without the one on the type of 'edges'.                      *)
ConfigError_NoEdgesListCheck(config) ==
    CASE config.nodes = Missing \/ config.edges = Missing ->
             "nodes or edges not found in workflow graph"
      [] ~IsList(config.nodes) -> "nodes in workflow graph must be a list"
      [] OTHER -> "-"

(* Lines 75-84 and 118-127: the message of the ValueError the checks of    *)
(* the document raise, "-" when they pass.                                 *)
ConfigError(config) ==
    CASE config.nodes = Missing \/ config.edges = Missing ->
             "nodes or edges not found in workflow graph"
      [] ~IsList(config.nodes) -> "nodes in workflow graph must be a list"
      [] ~IsList(config.edges) -> "edges in workflow graph must be a list"
      [] OTHER -> "-"

(* Line 112: not graph_config, the document has no key.                    *)
Falsy(config) == config.nodes = Missing /\ config.edges = Missing

NoGraph == [none |-> Null]

(* Lines 87 and 151: the graph Graph.init returns, as what it was built    *)
(* from.                                                                   *)
GraphInit(config, root_node_id) ==
    [graph_config |-> config, root_node_id |-> root_node_id]

(* node.get("data", {}).get("iteration_id", "")                            *)
IterationIdOf(node) ==
    IF "iteration_id" \in DOMAIN node.data THEN node.data.iteration_id ELSE ""

(* Line 133: the condition of the node filter.                             *)
KeepNode(node, node_id) ==
    node.id = node_id \/ IterationIdOf(node) = node_id

(* An edge filter that looks at the source only.                           *)
KeepEdge_SourceOnly(edge, node_ids) ==
    edge.source = Null \/ edge.source \in node_ids

(* Lines 144-145: the condition of the edge filter.                        *)
KeepEdge(edge, node_ids) ==
    /\ edge.source = Null \/ edge.source \in node_ids
    /\ edge.target = Null \/ edge.target \in node_ids

(* Lines 130-148: the document after the two filters.                      *)
FilterConfig(config, node_id) ==
    LET node_configs ==
            SelectSeq(Items(config.nodes), LAMBDA node : KeepNode(node, node_id))
        node_ids == {node_configs[i].id : i \in 1..Len(node_configs)}
        edge_configs ==
            SelectSeq(Items(config.edges),
                      LAMBDA edge : KeepEdge(edge, node_ids))
    IN [nodes |-> ListValue(node_configs), edges |-> ListValue(edge_configs)]

GraphResult(outcome, path, message, given, node_id, graph, inits) ==
    [outcome |-> outcome, path |-> path, message |-> message,
     given |-> given, node_id |-> node_id, graph |-> graph, inits |-> inits]

(* _init_graph(graph_config), lines 66-93.                                 *)
InitGraph ==
    /\ gresult' =
         IF ConfigError(graph_config) # "-"
           THEN GraphResult("ValueError", "_init_graph",
                            ConfigError(graph_config), graph_config, Null,
                            NoGraph, 0)
           ELSE GraphResult("ok", "_init_graph", "-", graph_config, Null,
                            GraphInit(graph_config, Null), 1)
    /\ UNCHANGED <<queueVars, redisVars, stopVars, data, graph_config,
                   vresult, streamVars, libVars>>

(* Lines 157-167: the iteration node is looked up among the kept nodes and *)
(* its type is converted.                                                  *)
IterationNodeError(config, node_id) ==
    LET node_configs == Items(config.nodes)
        found == {i \in 1..Len(node_configs) : node_configs[i].id = node_id}
    IN IF found = {}
         THEN "iteration node id not found in workflow graph"
       ELSE IF value_of(node_configs[CHOOSE i \in found :
                                       \A j \in found : i <= j].data.type)
                 = NoMember
         THEN "invalid node type"
       ELSE "-"

(* _get_graph_and_variable_pool_of_single_iteration(workflow, node_id,     *)
(* user_inputs), lines 95-194, with graph_config the dictionary            *)
(* workflow.graph_dict hands out (line 111).                               *)
SingleIteration(node_id) ==
    LET P == "single_iteration"
        filtered == FilterConfig(graph_config, node_id) IN
    /\ IF Falsy(graph_config)
         THEN /\ gresult' = GraphResult("ValueError", P,
                                "workflow graph not found", graph_config,
                                node_id, NoGraph, 0)
              /\ UNCHANGED graph_config
       ELSE IF ConfigError(graph_config) # "-"
         THEN /\ gresult' = GraphResult("ValueError", P,
                                ConfigError(graph_config), graph_config,
                                node_id, NoGraph, 0)
              /\ UNCHANGED graph_config
       ELSE /\ graph_config' = filtered
            /\ gresult' =
                 IF IterationNodeError(filtered, node_id) # "-"
                   THEN GraphResult("ValueError", P,
                            IterationNodeError(filtered, node_id),
                            graph_config, node_id,
                            GraphInit(filtered, node_id), 1)
                   ELSE GraphResult("ok", P, "-", graph_config, node_id,
                            GraphInit(filtered, node_id), 1)
    /\ UNCHANGED <<queueVars, redisVars, stopVars, data, vresult, streamVars, libVars>>

InitGraphs ==
    /\ ManagerInit /\ LibInit
    /\ graph_config \in Configs
    /\ gresult = NoGraphResult
    /\ vresult = NoCalls
    /\ invoke_result = <<>> /\ agent = FALSE /\ sidx = 0
    /\ text = "" /\ spc = "none"

NextGraph ==
    \/ InitGraph
    \/ \E node_id \in RootIds : SingleIteration(node_id)

SpecGraph == InitGraphs /\ [][NextGraph]_vars

----------------------------------------------------------------------------
(* Graph construction.                                                     *)

(* The single-iteration path has filtered the document it was given.       *)
Filtered == gresult.outcome # "none" /\ gresult.path = "single_iteration"
                /\ gresult.inits = 1

GivenNodes == gresult.given.nodes.list
GivenEdges == gresult.given.edges.list
KeptNodes == gresult.graph.graph_config.nodes.list
KeptEdges == gresult.graph.graph_config.edges.list
KeptIds == {KeptNodes[i].id : i \in 1..Len(KeptNodes)}

C13_ConfigUnchanged ==
    gresult.outcome # "none" => graph_config = gresult.given

(* The document lacks 'nodes' or 'edges', or one of them is not a list.    *)
Malformed(config) ==
    \/ "missing" \in DOMAIN config.nodes \/ "missing" \in DOMAIN config.edges
    \/ "list" \notin DOMAIN config.nodes \/ "list" \notin DOMAIN config.edges

(* C14: _init_graph and the single-iteration path, given a document that   *)
(* lacks 'nodes' or 'edges' or in which one of them is not a list, end     *)
(* with ValueError: no graph was constructed, the document was not         *)
(* filtered and nothing was put on the queue.                              *)
C14_MalformedConfigFails ==
    (gresult.outcome # "none" /\ Malformed(gresult.given)) =>
        /\ gresult.outcome = "ValueError"
        /\ gresult.graph = NoGraph /\ gresult.inits = 0
        /\ graph_config = gresult.given
        /\ log = <<>> /\ npub = 0

(* The single-iteration path refused a document whose 'edges' is not a     *)
(* list although its nodes are.                                            *)
C14_Witness ==
    /\ gresult.outcome = "ValueError" /\ gresult.path = "single_iteration"
    /\ gresult.given.edges = NotAList
    /\ IsList(gresult.given.nodes) /\ Len(gresult.given.nodes.list) = 1
    /\ gresult.message = "edges in workflow graph must be a list"

(* The tags of the closed set of node types as the specification lists it. *)
ListedTags ==
    {"start", "end", "answer", "llm", "knowledge-retrieval", "if-else",
     "code", "template-transform", "question-classifier", "http-request",
     "tool", "variable-aggregator", "variable-assigner", "loop", "iteration",
     "iteration-start", "parameter-extractor",
     "conversation-variable-assigner"}

ValueOfCalled == vresult.last.outcome # "none"

(* C17 as stated: value_of returns a member exactly for the listed tags.   *)
C17_AcceptsListedTags ==
    ValueOfCalled =>
        (vresult.last.outcome = "ok" <=> vresult.last.value \in ListedTags)

(* C17 amended: value_of returns a member exactly for the listed tags with *)
(* 'assigner' in the place of 'conversation-variable-assigner', raises     *)
(* ValueError for every other string, and two calls that return the same   *)
(* member were given the same tag.                                         *)
C17_AcceptsMemberValues ==
    LET tags == (ListedTags \ {"conversation-variable-assigner"})
                    \cup {"assigner"} IN
    /\ ValueOfCalled =>
          /\ vresult.last.outcome \in {"ok", "ValueError"}
          /\ vresult.last.outcome = "ok" <=> vresult.last.value \in tags
    /\ (vresult.prev.outcome = "ok" /\ vresult.last.outcome = "ok"
           /\ vresult.prev.member = vresult.last.member) =>
          vresult.prev.value = vresult.last.value

(* 'assigner' was accepted after 'conversation-variable-assigner' was      *)
(* refused.                                                                *)
C17_Witness ==
    /\ vresult.prev = [outcome |-> "ValueError",
                       value |-> "conversation-variable-assigner"]
    /\ vresult.last.outcome = "ok" /\ vresult.last.value = "assigner"
    /\ vresult.last.member = "CONVERSATION_VARIABLE_ASSIGNER"

----------------------------------------------------------------------------
(* SpecPing: the queue of Spec under a clock that runs on after the        *)
(* execution time is used up, until MaxClock.                              *)

MaxClock == 25

(* TickStep seconds pass while listen() waits in q.get or at its yield.    *)
TickLong ==
    /\ lpc \in {"get", "yield"}
    /\ TickStep >= GetTimeout
    /\ now' = IF now < MaxClock THEN now + TickStep ELSE now
    /\ lwaited' = IF lpc = "get" /\ QueueEmpty THEN TRUE ELSE lwaited
    /\ UNCHANGED <<head, yielded, lpc, lbreak, start_time, last_ping_time,
                   elapsed_time, lcause>>
    /\ UNCHANGED <<log, prodVars, redisVars, stopVars, checkVars>>

NextPing ==
    \/ \E e \in DirectSample : DirectPublish(e[1], e[2], e[3])
    \/ ProducerStopListen
    \/ ProducerCheck
    \/ ListenStart
    \/ ListenGet
    \/ ListenEmpty
    \/ ListenResume
    \/ ListenFinally
    \/ ListenStopPut
    \/ ListenStopListen
    \/ ListenPing
    \/ TickLong
    \/ Cancel

SpecPing == Init /\ [][NextPing]_vars

(* The QueuePingEvents on the queue, as positions of log.                  *)
Pings == {i \in 1..Len(log) : log[i].type = "QueuePingEvent"}

(* No more pings than 10-second intervals that have begun since listen()   *)
(* started, the last of which is the recorded one at most.                 *)
PingsWithinIntervals ==
    /\ Cardinality(Pings) <= last_ping_time
    /\ lpc # "init" => last_ping_time <= (now - start_time) \div PingInterval

(* The end of a loop iteration: the finally block is left.                 *)
IterationEnds == lpc = "ping" /\ lpc' # "ping"

(* C16: there are never more QueuePingEvents than 10-second intervals of   *)
(* elapsed time begun, the recorded last ping interval never decreases,    *)
(* and a loop iteration ends with the interval of its elapsed time         *)
(* recorded, having put one QueuePingEvent if that interval is a new one   *)
(* and none otherwise, whatever the stop flag and the execution time.      *)
C16_PingOncePerInterval ==
    [][/\ PingsWithinIntervals /\ PingsWithinIntervals'
       /\ last_ping_time' >= last_ping_time
       /\ IterationEnds =>
            /\ last_ping_time' = elapsed_time \div PingInterval
            /\ IF elapsed_time \div PingInterval > last_ping_time
                 THEN log' = Append(log, PingEvent)
                 ELSE log' = log]_vars

(* Two pings are on the queue, the second put after listen() had put its   *)
(* stop event for the execution time used up.                              *)
C16_Witness ==
    /\ Cardinality(Pings) = 2 /\ last_ping_time = 2
    /\ \E i, k \in Pings : \E j \in 1..Len(log) :
          /\ i < j /\ j < k
          /\ log[j].type = "QueueStopEvent" /\ log[j].pub_from = "TASK_PIPELINE"

----------------------------------------------------------------------------
(* SpecStream: AppRunner._handle_invoke_result_stream (base_app_runner.py) *)
(* on an invoke result of at most MaxChunks chunks, publishing through     *)
(* the queue manager while cancel requests arrive.                         *)

MaxChunks == 2

(* result.delta.message.content of a chunk.                                *)
Contents == {"a", "b", ""}

InvokeResults == SeqsUpTo(Contents, MaxChunks)

(* Lines 322-325: the event of one chunk.                                  *)
ChunkEvent(is_agent, content) ==
    [fields |-> [chunk |-> content]]
        @@ Message(IF is_agent THEN "QueueAgentMessageEvent"
                   ELSE "QueueLLMChunkEvent",
                   "APPLICATION_MANAGER", "stream", 0, "-", CleanData)

(* Lines 342-350: the event that ends the message.                         *)
MessageEndEvent(content) ==
    [fields |-> [text |-> content]]
        @@ Message("QueueMessageEndEvent", "APPLICATION_MANAGER", "stream",
                   0, "-", CleanData)

(* The call begins: lines 317-320.                                         *)
InitStream ==
    /\ ManagerInit /\ LibInit
    /\ graph_config = NoConfig /\ gresult = NoGraphResult /\ vresult = NoCalls
    /\ invoke_result \in InvokeResults
    /\ agent \in BOOLEAN
    /\ sidx = 0 /\ text = "" /\ spc = "loop"

(* Lines 321-325: the for loop takes the next chunk and publishes it.      *)
StreamPublishChunk ==
    /\ spc = "loop" /\ ppc = "idle" /\ sidx < Len(invoke_result)
    /\ PublishCall(ChunkEvent(agent, invoke_result[sidx + 1]),
                   "APPLICATION_MANAGER")
    /\ spc' = "chunk"
    /\ UNCHANGED <<invoke_result, agent, sidx, text>>
    /\ UNCHANGED <<handled, listenVars, now, redisVars, stopVars, data,
                   graphVars, libVars>>

(* A loop that goes on whatever the publish did.                           *)
StreamAfterChunk_Swallow ==
    /\ spc = "chunk" /\ ppc = "idle"
    /\ text' = text \o invoke_result[sidx + 1]
    /\ sidx' = sidx + 1
    /\ spc' = "loop"
    /\ UNCHANGED <<invoke_result, agent>>
    /\ UNCHANGED <<queueVars, redisVars, stopVars, data, graphVars, libVars>>

(* Lines 327-340: the publish has returned and the chunk's content is      *)
(* appended to text, or the publish has raised and the call is left.       *)
StreamAfterChunk ==
    /\ spc = "chunk" /\ ppc = "idle"
    /\ IF presult.outcome = "ok"
         THEN /\ text' = text \o invoke_result[sidx + 1]
              /\ sidx' = sidx + 1
              /\ spc' = "loop"
         ELSE /\ spc' = "raised"
              /\ UNCHANGED <<text, sidx>>
    /\ UNCHANGED <<invoke_result, agent>>
    /\ UNCHANGED <<queueVars, redisVars, stopVars, data, graphVars, libVars>>

(* Lines 342-350: the invoke result is exhausted and the end is published. *)
StreamPublishEnd ==
    /\ spc = "loop" /\ ppc = "idle" /\ sidx = Len(invoke_result)
    /\ PublishCall(MessageEndEvent(text), "APPLICATION_MANAGER")
    /\ spc' = "end"
    /\ UNCHANGED <<invoke_result, agent, sidx, text>>
    /\ UNCHANGED <<handled, listenVars, now, redisVars, stopVars, data,
                   graphVars, libVars>>

(* The last publish has returned or raised: the call is left.              *)
StreamReturn ==
    /\ spc = "end" /\ ppc = "idle"
    /\ spc' = IF presult.outcome = "ok" THEN "done" ELSE "raised"
    /\ UNCHANGED <<invoke_result, agent, sidx, text>>
    /\ UNCHANGED <<queueVars, redisVars, stopVars, data, graphVars, libVars>>

NextStream ==
    \/ StreamPublishChunk
    \/ StreamAfterChunk
    \/ StreamPublishEnd
    \/ StreamReturn
    \/ ProducerStopListen
    \/ ProducerCheck
    \/ Cancel

SpecStream == InitStream /\ [][NextStream]_vars

(* What the call has put on the queue so far.                              *)
StreamLog == SelectSeq(log, LAMBDA m : m.via = "stream")

ChunkTypes == {"QueueLLMChunkEvent", "QueueAgentMessageEvent"}

RECURSIVE Concat(_)
Concat(contents) ==
    IF contents = <<>> THEN ""
    ELSE Head(contents) \o Concat(Tail(contents))

(* The k-th event of the call is the event of the k-th chunk, and the      *)
(* event after the last chunk's is the one QueueMessageEndEvent, with the  *)
(* concatenation of all contents.                                          *)
StreamInOrder ==
    /\ Len(StreamLog) <= Len(invoke_result) + 1
    /\ \A k \in 1..Len(StreamLog) :
          IF k <= Len(invoke_result)
            THEN /\ StreamLog[k].type \in ChunkTypes
                 /\ StreamLog[k].fields.chunk = invoke_result[k]
            ELSE /\ StreamLog[k].type = "QueueMessageEndEvent"
                 /\ StreamLog[k].fields.text = Concat(invoke_result)
    /\ spc = "done" => Len(StreamLog) = Len(invoke_result) + 1

(* The publish of a chunk has raised GenerateTaskStoppedError.             *)
RaisedOnChunk ==
    /\ ppc = "idle" /\ presult.via = "stream"
    /\ presult.outcome = "GenerateTaskStoppedError"
    /\ StreamLog # <<>>
    /\ StreamLog[Len(StreamLog)].type \in ChunkTypes

(* C18: the call puts the chunk events in the order of the chunks, one for *)
(* each, and once it has returned exactly one QueueMessageEndEvent after   *)
(* them, with the concatenation of the chunk contents; once the publish of *)
(* a chunk has raised GenerateTaskStoppedError the call puts nothing more. *)
C18_ChunksThenEnd ==
    [][/\ StreamInOrder /\ StreamInOrder'
       /\ RaisedOnChunk => StreamLog' = StreamLog]_vars

(* The publish of the first of two chunks raised and the call was left     *)
(* with one chunk event on the queue.                                      *)
StreamStopped ==
    /\ spc = "raised" /\ RaisedOnChunk /\ invoke_result = <<"a", "b">>
    /\ Len(StreamLog) = 1

(* Two chunks were published and the call returned after the end event.    *)
C18_Witness ==
    /\ spc = "done" /\ invoke_result = <<"a", "b">>
    /\ Len(StreamLog) = 3 /\ StreamLog[3].fields.text = "ab"

----------------------------------------------------------------------------
(* What a publish that raises has left in the queue.                       *)

(* The stop check of the producer's publish raises in this step.           *)
PublishRaises ==
    /\ ppc = "check" /\ ppc' = "idle"
    /\ presult'.outcome = "GenerateTaskStoppedError"

(* C27: when a publish with origin APPLICATION_MANAGER raises              *)
(* GenerateTaskStoppedError its event is already in the queue, and behind  *)
(* a terminal event a None sentinel; the queue is as the put left it.      *)
C27_RaisedAfterEnqueue ==
    [][PublishRaises =>
          /\ ppub_from = "APPLICATION_MANAGER"
          /\ log' = log
          /\ \E i \in 1..Len(log) :
                /\ log[i] = pevent
                /\ IsTerminal(pevent) =>
                      \E j \in (i + 1)..Len(log) : log[j] = Sentinel]_vars

(* The producer's publish of a chunk raised GenerateTaskStoppedError and   *)
(* listen() has yielded the chunk.                                         *)
C27_Witness ==
    /\ presult.outcome = "GenerateTaskStoppedError" /\ presult.via = "direct"
    /\ \E i \in 1..Len(yielded) :
          /\ yielded[i].via = "direct"
          /\ yielded[i].type = "QueueLLMChunkEvent"

----------------------------------------------------------------------------
(* The end of listen().                                                    *)

(* listen() has dequeued the first None.                                   *)
SentinelDequeued == HasSentinel /\ head >= FirstSentinel

(* Once the first None is dequeued the loop is left (break), nothing       *)
(* behind that None has been dequeued, and what has been yielded is what   *)
(* lay before it; listen() ends in no other way.                           *)
BrokeAtFirstSentinel ==
    /\ SentinelDequeued =>
          /\ lbreak /\ lpc # "get" /\ head = FirstSentinel
          /\ yielded = SubSeq(log, 1, FirstSentinel - 1)
    /\ (lbreak \/ lpc = "done") => SentinelDequeued

(* C28: listen() leaves its loop on the first None it dequeues, and from   *)
(* then on takes nothing from the queue and yields nothing, whatever lies  *)
(* behind that None or is put there afterwards, by the producer or by the  *)
(* finally block of listen() itself.                                       *)
C28_EndsAtFirstSentinel ==
    [][/\ BrokeAtFirstSentinel /\ BrokeAtFirstSentinel'
       /\ SentinelDequeued => (yielded' = yielded /\ head' = head)]_vars

(* listen() has ended, and on the iteration that dequeued the None its own *)
(* finally block put a further stop event and None, which were not         *)
(* yielded.                                                                *)
C28_Witness ==
    /\ lpc = "done"
    /\ \E i \in (FirstSentinel + 1)..Len(log) :
          /\ log[i].type = "QueueStopEvent" /\ log[i].via = "listen"
          /\ \E j \in (i + 1)..Len(log) : log[j] = Sentinel
    /\ \A k \in 1..Len(yielded) : yielded[k].via # "listen"

----------------------------------------------------------------------------
(* SpecRedis: RedisClientWrapper (ext_redis.py), a subclass of             *)
(* redis.Redis whose __init__ only sets _client.                           *)

MaxInits == 3

Clients == {"master", "client", "other"}

(* Names that normal attribute lookup finds on the wrapper: its instance   *)
(* attribute (line 26), its own methods (lines 28, 41) and, for "get", a   *)
(* method inherited from redis.Redis (line 5).  Python calls __getattr__   *)
(* only for a name that normal lookup does not find.                       *)
FoundByLookup == {"_client", "initialize", "get"}

(* The names accessed; "connection_pool" and "ping_interval" are set or    *)
(* defined nowhere on the wrapper.                                         *)
AttributeNames == FoundByLookup \cup {"connection_pool", "ping_interval"}

(* An initialize that takes every client it is given.                      *)
initialize_Overwrite(client_now, client) == client

(* Lines 38-39: the client the wrapper holds after initialize(client).     *)
initialize(client_now, client) ==
    IF client_now = Null THEN client ELSE client_now

(* Lines 58-60: __getattr__(item).                                         *)
__getattr__(client_now, item) ==
    IF client_now = Null
      THEN [outcome |-> "RuntimeError", of |-> Null, item |-> item]
      ELSE [outcome |-> "ok", of |-> client_now, item |-> item]

(* wrapper.<item>: normal lookup first, __getattr__ for what it misses.    *)
GetAttribute(client_now, item) ==
    IF item \in FoundByLookup
      THEN [outcome |-> "ok", of |-> "wrapper", item |-> item]
      ELSE __getattr__(client_now, item)

Initialize(client) ==
    /\ Len(init_calls) < MaxInits
    /\ _client' = initialize(_client, client)
    /\ init_calls' = Append(init_calls, client)
    /\ rresult' = [op |-> "initialize", before |-> _client]
                      @@ [outcome |-> "ok"]
    /\ UNCHANGED <<cache, storage, kresult, args, ret>>
    /\ UNCHANGED <<queueVars, redisVars, stopVars, data, graphVars,
                   streamVars>>

Access(item) ==
    /\ rresult' = [op |-> "getattr", before |-> _client]
                      @@ GetAttribute(_client, item)
    /\ UNCHANGED <<_client, init_calls>>
    /\ UNCHANGED <<cache, storage, kresult, args, ret>>
    /\ UNCHANGED <<queueVars, redisVars, stopVars, data, graphVars,
                   streamVars>>

NextRedis ==
    \/ \E client \in Clients : Initialize(client)
    \/ \E item \in AttributeNames : Access(item)

SpecRedis == Init /\ [][NextRedis]_vars

(* The wrapped client is the one the first initialize was given.           *)
FirstClientKept ==
    _client = IF init_calls = <<>> THEN Null ELSE init_calls[1]

AccessedBeforeInit == rresult.outcome # "none" /\ rresult.op = "getattr"
                          /\ rresult.before = Null

----------------------------------------------------------------------------
(* SpecKeys: get_decrypt_decoding (libs/rsa.py) over the Redis cache and   *)
(* the key files of two tenants, while keys are written, deleted and the   *)
(* cached entries expire.                                                  *)

(* The contents of a private key file; Null in storage is no file.         *)
Keys == {"keyA", "keyB"}

(* Line 121: the seconds a loaded key is cached for.                       *)
CacheSeconds == 120

(* Line 113: not private_key.                                              *)
CacheMiss(private_key) == private_key = Null \/ private_key = ""

(* A call that never caches what it loads.                                 *)
CacheAfter_NoSetex(c, tenant_id, file) == c

(* Lines 113-121: the cache after the call.                                *)
CacheAfter(c, tenant_id, file) ==
    IF CacheMiss(c[tenant_id].value) /\ file # Null
      THEN [c EXCEPT ![tenant_id] = [value |-> file, ttl |-> CacheSeconds]]
      ELSE c

(* Lines 110-130: what the call returns or raises; loaded tells whether    *)
(* storage.load was called.                                                *)
DecryptDecoding(c, tenant_id, file) ==
    IF ~CacheMiss(c[tenant_id].value)
      THEN [outcome |-> "ok", key |-> c[tenant_id].value, loaded |-> FALSE]
    ELSE IF file = Null
      THEN [outcome |-> "PrivkeyNotFoundError", key |-> Null,
            loaded |-> TRUE]
    ELSE [outcome |-> "ok", key |-> file, loaded |-> TRUE]

get_decrypt_decoding(tenant_id) ==
    /\ cache' = CacheAfter(cache, tenant_id, storage[tenant_id])
    /\ kresult' = [tenant_id |-> tenant_id, cached |-> cache[tenant_id],
                   file |-> storage[tenant_id], before |-> cache,
                   after |-> cache']
                     @@ DecryptDecoding(cache, tenant_id, storage[tenant_id])
    /\ UNCHANGED <<storage, _client, init_calls, rresult, args, ret>>
    /\ UNCHANGED <<queueVars, redisVars, stopVars, data, graphVars,
                   streamVars>>

(* A tenant's key file is written or deleted.                              *)
StoreKey(tenant_id, file) ==
    /\ storage' = [storage EXCEPT ![tenant_id] = file]
    /\ UNCHANGED <<cache, kresult, _client, init_calls, rresult, args, ret>>
    /\ UNCHANGED <<queueVars, redisVars, stopVars, data, graphVars,
                   streamVars>>

(* The seconds of a cached entry are over and Redis drops it.              *)
ExpireKey(tenant_id) ==
    /\ cache[tenant_id] # NoEntry
    /\ cache' = [cache EXCEPT ![tenant_id] = NoEntry]
    /\ UNCHANGED <<storage, kresult, _client, init_calls, rresult, args, ret>>
    /\ UNCHANGED <<queueVars, redisVars, stopVars, data, graphVars,
                   streamVars>>

NextKeys ==
    \/ \E t \in TenantIds : get_decrypt_decoding(t)
    \/ \E t \in TenantIds : \E file \in Keys \cup {Null} : StoreKey(t, file)
    \/ \E t \in TenantIds : ExpireKey(t)

SpecKeys == Init /\ [][NextKeys]_vars

KeyCalled == kresult.outcome # "none"

----------------------------------------------------------------------------
(* SpecTokens: AppRunner.recalc_llm_max_tokens (base_app_runner.py) on     *)
(* model configurations drawn from samples.                                *)

(* model_config and the token count of the prompt: model_properties with  *)
(* or without a context size, the parameter rules, the parameters (a       *)
(* value that is None or absent reads as 0 in the 'or' chain of lines      *)
(* 130-133, as 0 itself does) and                                          *)
(* model_instance.get_llm_num_tokens(prompt_messages).                     *)
ModelConfigs ==
    LET Rule(name, use_template) ==
            [name |-> name, use_template |-> use_template]
    IN [model_properties :
            {[mode |-> "chat"]}
                \cup {[mode |-> "chat", context_size |-> c] : c \in {20, 100}},
        parameter_rules :
            {<<>>,
             <<Rule("temperature", Null)>>,
             <<Rule("temperature", Null), Rule("max_tokens", Null)>>,
             <<Rule("max_tokens_to_sample", "max_tokens")>>,
             <<Rule("max_tokens", Null),
               Rule("max_tokens_to_sample", "max_tokens")>>},
        parameters :
            {[temperature |-> 1]}
                \cup {[temperature |-> 1, max_tokens |-> m] : m \in {0, 40, 95}}
                \cup {[temperature |-> 1, max_tokens_to_sample |-> 95]}
                \cup {[temperature |-> 1, max_tokens |-> m,
                       max_tokens_to_sample |-> 95] : m \in {0, 40}},
        prompt_tokens : {10, 30, 120}]

(* Lines 127-129: the rule is the max_tokens rule, by name or by template. *)
IsMaxTokensRule(parameter_rule) ==
    \/ parameter_rule.name = "max_tokens"
    \/ parameter_rule.use_template # Null
          /\ parameter_rule.use_template = "max_tokens"

(* Lines 125-134: max_tokens as the loop over the rules leaves it; get is  *)
(* parameters.get(key) or 0.                                               *)
RECURSIVE ReadMaxTokens(_, _, _)
ReadMaxTokens(rules, parameters, max_tokens) ==
    LET get(key) == IF key \in DOMAIN parameters THEN parameters[key] ELSE 0
    IN IF rules = <<>> THEN max_tokens
       ELSE ReadMaxTokens(Tail(rules), parameters,
               IF IsMaxTokensRule(Head(rules))
                 THEN IF get(Head(rules).name) # 0
                        THEN get(Head(rules).name)
                        ELSE get(Head(rules).use_template)
                 ELSE max_tokens)

(* A recalculation without the floor of 16.                                *)
NewMaxTokens_NoFloor(model_context_tokens, prompt_tokens) ==
    model_context_tokens - prompt_tokens

(* Line 148: max(model_context_tokens - prompt_tokens, 16)                 *)
NewMaxTokens(model_context_tokens, prompt_tokens) ==
    IF model_context_tokens - prompt_tokens > 16
      THEN model_context_tokens - prompt_tokens
      ELSE 16

(* Lines 150-154: parameters[parameter_rule.name] = max_tokens for each    *)
(* max_tokens rule.                                                        *)
RECURSIVE WriteMaxTokens(_, _, _)
WriteMaxTokens(rules, parameters, max_tokens) ==
    IF rules = <<>> THEN parameters
    ELSE WriteMaxTokens(Tail(rules),
            IF IsMaxTokensRule(Head(rules))
              THEN [k \in DOMAIN parameters \cup {Head(rules).name} |->
                       IF k = Head(rules).name THEN max_tokens
                       ELSE parameters[k]]
              ELSE parameters,
            max_tokens)

(* Lines 122-154: the parameters after the call.                           *)
RecalcParameters(model_config) ==
    LET max_tokens == ReadMaxTokens(model_config.parameter_rules,
                                    model_config.parameters, 0)
        known == "context_size" \in DOMAIN model_config.model_properties
    IN IF known /\ model_config.prompt_tokens + max_tokens
                      > model_config.model_properties.context_size
         THEN WriteMaxTokens(model_config.parameter_rules,
                  model_config.parameters,
                  NewMaxTokens(model_config.model_properties.context_size,
                               model_config.prompt_tokens))
         ELSE model_config.parameters

(* The function under study is about to be called with one of the given   *)
(* arguments; the rest of the program is as constructed.                   *)
CallInit(arguments) ==
    /\ ManagerInit
    /\ graph_config = NoConfig /\ gresult = NoGraphResult /\ vresult = NoCalls
    /\ invoke_result = <<>> /\ agent = FALSE /\ sidx = 0
    /\ text = "" /\ spc = "none"
    /\ _client = Null /\ init_calls = <<>> /\ rresult = NoCalled
    /\ cache = [t \in TenantIds |-> NoEntry]
    /\ storage = [t \in TenantIds |-> Null]
    /\ kresult = NoCalled
    /\ args \in arguments
    /\ ret = NoCalled

(* recalc_llm_max_tokens(model_config, prompt_messages): the parameters of *)
(* model_config are rewritten in place; -1 is returned when the context    *)
(* size is unknown (line 137), None otherwise.                             *)
recalc_llm_max_tokens ==
    /\ ret = NoCalled
    /\ args' = [args EXCEPT !.parameters = RecalcParameters(args)]
    /\ ret' = [outcome |-> "ok", given |-> args,
               value |-> IF "context_size" \in DOMAIN args.model_properties
                           THEN Null ELSE "-1"]
    /\ UNCHANGED <<_client, init_calls, rresult, cache, storage, kresult>>
    /\ UNCHANGED <<queueVars, redisVars, stopVars, data, graphVars,
                   streamVars>>

SpecTokens == CallInit(ModelConfigs) /\ [][recalc_llm_max_tokens]_vars

(* The max_tokens parameters of a configuration: the parameters named by   *)
(* a rule that is max_tokens by name or by template.                       *)
MaxTokensNames(model_config) ==
    {model_config.parameter_rules[i].name :
        i \in {j \in 1..Len(model_config.parameter_rules) :
                  \/ model_config.parameter_rules[j].name = "max_tokens"
                  \/ model_config.parameter_rules[j].use_template = "max_tokens"}}

(* The value of max_tokens the call compares: that of the parameter of the *)
(* last max_tokens rule, or failing that of the parameter 'max_tokens', 0  *)
(* when there is none.                                                     *)
GivenMaxTokens(model_config) ==
    LET rules == model_config.parameter_rules
        at == {j \in 1..Len(rules) :
                  rules[j].name = "max_tokens"
                      \/ rules[j].use_template = "max_tokens"}
        params == model_config.parameters
    IN IF at = {} THEN 0
       ELSE LET last == rules[CHOOSE j \in at : \A k \in at : k <= j] IN
            IF last.name \in DOMAIN params /\ params[last.name] # 0
              THEN params[last.name]
            ELSE IF "max_tokens" \in DOMAIN params /\ last.use_template # Null
              THEN params["max_tokens"]
            ELSE 0

(* C23: the call has changed the parameters only where the context size    *)
(* is known and prompt_tokens + max_tokens exceeds it, and there exactly   *)
(* the max_tokens parameters, which are max(context_size - prompt_tokens,  *)
(* 16) afterwards; everywhere else the parameters are as they were.        *)
C23_MaxTokensRecalculated ==
    ret.outcome = "ok" =>
        LET given == ret.given
            known == "context_size" \in DOMAIN given.model_properties
            exceeds == known /\ given.prompt_tokens + GivenMaxTokens(given)
                                   > given.model_properties.context_size
            rest == given.model_properties.context_size - given.prompt_tokens
        IN /\ args.parameters # given.parameters => exceeds
           /\ ~exceeds => args = given
           /\ exceeds =>
                 /\ \A k \in MaxTokensNames(given) :
                       /\ k \in DOMAIN args.parameters
                       /\ args.parameters[k] = IF rest >= 16 THEN rest ELSE 16
                 /\ \A k \in DOMAIN given.parameters \ MaxTokensNames(given) :
                       args.parameters[k] = given.parameters[k]
                 /\ DOMAIN args.parameters
                       = DOMAIN given.parameters \cup MaxTokensNames(given)

(* The prompt alone exceeds the context size and max_tokens was set to 16. *)
C23_Witness ==
    /\ ret.outcome = "ok"
    /\ ret.given.prompt_tokens = 30
    /\ ret.given.model_properties = [mode |-> "chat", context_size |-> 20]
    /\ ret.given.parameters = [temperature |-> 1, max_tokens |-> 40]
    /\ args.parameters = [temperature |-> 1, max_tokens |-> 16]

----------------------------------------------------------------------------
(* SpecConvert: AppGenerateResponseConverter.convert                       *)
(* (base_app_generate_response_converter.py) on blocking responses and on  *)
(* streams of at most MaxResponses stream responses.                       *)

MaxResponses == 2

(* The arguments: a blocking response or a stream of stream responses,     *)
(* each named by what it is about, and invoke_from.                        *)
ConvertArguments ==
    [response :
         {[blocking |-> TRUE, stream |-> <<>>]}
             \cup {[blocking |-> FALSE, stream |-> rs] :
                      rs \in SeqsUpTo({"ping", "message", "message_end"},
                                      MaxResponses)},
     invoke_from : InvokeFrom]

(* Line 37 and line 71: which pair of converters is used.                  *)
ConverterOf(invoke_from) ==
    IF invoke_from \in {"DEBUGGER", "SERVICE_API"} THEN "full" ELSE "simple"

(* convert_stream_full_response / convert_stream_simple_response (lines    *)
(* 134-162, implemented by the subclasses): the chunk of a stream          *)
(* response, 'ping' for a ping.                                            *)
ConvertedChunk(converter, stream_response) ==
    IF stream_response = "ping" THEN "ping"
    ELSE "{" \o converter \o ":" \o stream_response \o "}"

(* A generator that frames every chunk as data.                            *)
Frame_DataOnly(chunk) == "data: " \o chunk \o "\n\n"

(* Lines 58-67 and 91-100: the frame of a chunk.                           *)
Frame(chunk) ==
    IF chunk = "ping" THEN "event: " \o chunk \o "\n\n"
    ELSE "data: " \o chunk \o "\n\n"

(* convert(response, invoke_from): a dict for a blocking response, a       *)
(* generator that has yielded nothing yet for a stream.                    *)
convert ==
    /\ ret = NoCalled
    /\ ret' = [outcome |-> IF args.response.blocking THEN "dict"
                           ELSE "generator",
               converter |-> ConverterOf(args.invoke_from),
               frames |-> <<>>, exhausted |-> FALSE]
    /\ UNCHANGED <<args, _client, init_calls, rresult, cache, storage,
                   kresult>>
    /\ UNCHANGED <<queueVars, redisVars, stopVars, data, graphVars,
                   streamVars>>

(* next() on the generator: the next chunk of the converter is framed and  *)
(* yielded, or the generator ends.                                         *)
NextFrame ==
    LET chunks == [k \in 1..Len(args.response.stream) |->
                      ConvertedChunk(ret.converter, args.response.stream[k])]
    IN
    /\ ret.outcome = "generator" /\ ~ret.exhausted
    /\ ret' = IF Len(ret.frames) < Len(chunks)
                THEN [ret EXCEPT !.frames =
                         Append(@, Frame(chunks[Len(ret.frames) + 1]))]
                ELSE [ret EXCEPT !.exhausted = TRUE]
    /\ UNCHANGED <<args, _client, init_calls, rresult, cache, storage,
                   kresult>>
    /\ UNCHANGED <<queueVars, redisVars, stopVars, data, graphVars,
                   streamVars>>

NextConvert == convert \/ NextFrame

SpecConvert == CallInit(ConvertArguments) /\ [][NextConvert]_vars

(* The chunks of the converter the generator draws from.                   *)
ChunksOf(kind) ==
    [k \in 1..Len(args.response.stream) |->
        IF args.response.stream[k] = "ping" THEN "ping"
        ELSE "{" \o kind \o ":" \o args.response.stream[k] \o "}"]

(* C24: the frames the generator has yielded are those of the first chunks *)
(* of the converter, one for each in order: 'event: ping' and a blank line *)
(* for the chunk 'ping', 'data: ' with the chunk and a blank line for      *)
(* every other one, all of them once the generator has ended; the          *)
(* converter is the full one for DEBUGGER and SERVICE_API and the simple   *)
(* one otherwise.                                                          *)
C24_OneFramePerChunk ==
    ret.outcome = "generator" =>
        LET kind == IF args.invoke_from = "DEBUGGER"
                        \/ args.invoke_from = "SERVICE_API"
                      THEN "full" ELSE "simple"
            chunks == ChunksOf(kind)
        IN /\ ret.converter = kind
           /\ Len(ret.frames) <= Len(chunks)
           /\ ret.exhausted => Len(ret.frames) = Len(chunks)
           /\ \A k \in 1..Len(ret.frames) :
                 ret.frames[k] = IF chunks[k] = "ping"
                                   THEN "event: ping\n\n"
                                   ELSE "data: " \o chunks[k] \o "\n\n"

(* A ping and a message were framed for a web app and the generator ended. *)
C24_Witness ==
    /\ ret.outcome = "generator" /\ ret.exhausted
    /\ args.invoke_from = "WEB_APP"
    /\ ret.frames = <<"event: ping\n\n", "data: {simple:message}\n\n">>

----------------------------------------------------------------------------
(* SpecMetadata: AppGenerateResponseConverter._get_simple_metadata on      *)
(* metadata with at most MaxResources retriever resources.                 *)

MaxResources == 2

(* metadata: a custom entry, with or without 'annotation_reply' and        *)
(* 'usage', and with or without a list of retriever resources as the       *)
(* message carries them.                                                   *)
Metadata ==
    LET Resource(n) ==
            [segment_id |-> n, position |-> n, document_name |-> "doc",
             score |-> n, content |-> "text", dataset_id |-> "ds",
             document_id |-> "d"]
        OptionalEntries ==
            {[k \in keys |-> [total_tokens |-> 7]] :
                keys \in SUBSET {"annotation_reply", "usage"}}
    IN {[custom |-> [k |-> 1]] @@ o : o \in OptionalEntries}
           \cup {[custom |-> [k |-> 1], retriever_resources |-> rs] @@ o :
                    o \in OptionalEntries,
                    rs \in SeqsUpTo({Resource(n) : n \in 1..3},
                                    MaxResources)}

(* Lines 186-190: the entry appended for a resource.                       *)
SimpleResource(resource) ==
    [segment_id |-> resource.segment_id, position |-> resource.position,
     document_name |-> resource.document_name, score |-> resource.score,
     content |-> resource.content]

(* Lines 180-192: the loop over a list, appending to simple.               *)
RECURSIVE SimpleResources(_, _)
SimpleResources(resources, simple) ==
    IF resources = <<>> THEN simple
    ELSE SimpleResources(Tail(resources),
                         Append(simple, SimpleResource(Head(resources))))

(* Lines 175-206.  Line 179 puts an empty list under                       *)
(* 'retriever_resources' and line 180 iterates over what is under that key *)
(* then, which is the empty list.                                          *)
_get_simple_metadata(metadata) ==
    LET emptied == IF "retriever_resources" \in DOMAIN metadata
                     THEN [metadata EXCEPT !.retriever_resources = <<>>]
                     ELSE metadata
        reduced == IF "retriever_resources" \in DOMAIN metadata
                     THEN [emptied EXCEPT !.retriever_resources =
                              SimpleResources(emptied.retriever_resources,
                                              emptied.retriever_resources)]
                     ELSE emptied
    IN [k \in DOMAIN reduced \ {"annotation_reply", "usage"} |-> reduced[k]]

(* The call rewrites metadata in place and returns it.                     *)
GetSimpleMetadata ==
    /\ ret = NoCalled
    /\ args' = _get_simple_metadata(args)
    /\ ret' = [outcome |-> "ok", given |-> args,
               value |-> _get_simple_metadata(args)]
    /\ UNCHANGED <<_client, init_calls, rresult, cache, storage, kresult>>
    /\ UNCHANGED <<queueVars, redisVars, stopVars, data, graphVars,
                   streamVars>>

SpecMetadata == CallInit(Metadata) /\ [][GetSimpleMetadata]_vars

(* C25: the metadata returned holds, for each entry of the given           *)
(* retriever_resources in order, one entry with its segment_id, position,  *)
(* document_name, score and content and nothing else, and holds neither    *)
(* 'annotation_reply' nor 'usage'.                                         *)
C25_ResourcesReduced ==
    ret.outcome = "ok" =>
        /\ "annotation_reply" \notin DOMAIN ret.value
        /\ "usage" \notin DOMAIN ret.value
        /\ "retriever_resources" \in DOMAIN ret.given =>
              /\ "retriever_resources" \in DOMAIN ret.value
              /\ Len(ret.value.retriever_resources)
                     = Len(ret.given.retriever_resources)
              /\ \A k \in 1..Len(ret.given.retriever_resources) :
                    LET r == ret.given.retriever_resources[k]
                        o == ret.value.retriever_resources[k]
                    IN /\ DOMAIN o = {"segment_id", "position",
                                      "document_name", "score", "content"}
                       /\ \A f \in DOMAIN o : o[f] = r[f]

----------------------------------------------------------------------------
(* SpecInputs: BaseAppGenerator._get_cleaned_inputs and _validate_input    *)
(* (base_app_generator.py) on app configs of at most MaxVars variables.    *)
(* A string is the sequence of its characters.                             *)

MaxVars == 2

NUL == "\\x00"

Digits == <<"0", "1", "2", "3", "4", "5", "6", "7", "8", "9">>

NoneValue == [kind |-> "none"]

Str(chars) == [kind |-> "str", s |-> chars]

Int_(n) == [kind |-> "int", n |-> n]

Float_(n, scale) == [kind |-> "float", n |-> n, scale |-> scale]

(* The arguments: user_inputs, None or a mapping ('z' is never a           *)
(* configured variable), and app_config.variables, of each VariableEntity  *)
(* (core.app.app_config.entities) the fields the validation reads.         *)
InputArguments ==
    LET Strings ==
            {<<>>, <<"a">>, <<"c">>, <<"a", "b", "c", "d">>, <<"5">>,
             <<"1", ".", "5">>, <<"x", ".", "y">>, <<"a", NUL>>}
        InputValues == {Str(chars) : chars \in Strings} \cup {Int_(0), Int_(5)}
        VariableEntity(variable, type, required, default) ==
            [variable |-> variable, type |-> type, required |-> required,
             default |-> default,
             options |-> IF type = "select" THEN <<<<"a">>, <<"5">>>>
                         ELSE <<>>,
             max_length |-> IF type = "text-input" THEN 3 ELSE 0]
    IN [user_inputs :
            {[none |-> TRUE, items |-> [k \in {} |-> NoneValue]]}
                \cup {[none |-> FALSE, items |-> [k \in keys |-> vs[k]]] :
                         keys \in SUBSET {"x", "z"},
                         vs \in [x : InputValues, z : {Str(<<"a">>)}]},
        variables :
            SeqsUpTo({VariableEntity(variable, type, required, default) :
                         variable \in {"x", "y"},
                         type \in {"text-input", "select", "paragraph",
                                   "number"},
                         required \in BOOLEAN,
                         default \in {NoneValue, Str(<<"a">>)}},
                     MaxVars)]

(* Python's truth value of a value.                                        *)
IsTrue(value) ==
    CASE value.kind = "none" -> FALSE
      [] value.kind = "str" -> value.s # <<>>
      [] OTHER -> value.n # 0

RECURSIVE IntOf(_)
IntOf(chars) ==
    IF chars = <<>> THEN 0
    ELSE IntOf(SubSeq(chars, 1, Len(chars) - 1)) * 10
             + ((CHOOSE d \in 1..10 : Digits[d] = chars[Len(chars)]) - 1)

(* int(chars) and float(chars) on the strings of the sample: the value, or *)
(* ValueError.                                                             *)
ParseNumber(chars) ==
    LET dots == SelectSeq(chars, LAMBDA c : c = ".")
        digits == SelectSeq(chars, LAMBDA c : \E d \in 1..10 : Digits[d] = c)
    IN IF Len(dots) + Len(digits) # Len(chars) \/ digits = <<>>
           \/ Len(dots) > 1
         THEN [outcome |-> "ValueError"]
         ELSE IF dots # <<>>
           THEN [outcome |-> "ok",
                 value |-> Float_(IntOf(digits),
                     Len(chars) - (CHOOSE i \in 1..Len(chars) :
                                       chars[i] = "."))]
           ELSE [outcome |-> "ok", value |-> Int_(IntOf(digits))]

(* An optional variable without input yields its default as it is.         *)
DefaultOrEmpty_NoFallback(var) == var.default

(* Line 50: var.default or ""                                              *)
DefaultOrEmpty(var) ==
    IF IsTrue(var.default) THEN var.default ELSE Str(<<>>)

(* Lines 44-83.                                                            *)
_validate_input(inputs, var) ==
    LET user_input_value == IF var.variable \in DOMAIN inputs
                              THEN inputs[var.variable] ELSE NoneValue
    IN
    IF var.required /\ ~IsTrue(user_input_value)
      THEN [outcome |-> "ValueError"]
    ELSE IF ~var.required /\ ~IsTrue(user_input_value)
      THEN [outcome |-> "ok", value |-> DefaultOrEmpty(var)]
    ELSE IF /\ var.type \in {"text-input", "select", "paragraph"}
            /\ IsTrue(user_input_value)
            /\ user_input_value.kind # "str"
      THEN [outcome |-> "ValueError"]
    ELSE IF var.type = "number" /\ user_input_value.kind = "str"
      THEN ParseNumber(user_input_value.s)
    ELSE IF /\ var.type = "select"
            /\ \A i \in 1..Len(var.options) :
                  var.options[i] # user_input_value.s
      THEN [outcome |-> "ValueError"]
    ELSE IF /\ var.type \in {"text-input", "paragraph"}
            /\ var.max_length # 0
            /\ IsTrue(user_input_value)
            /\ Len(user_input_value.s) > var.max_length
      THEN [outcome |-> "ValueError"]
    ELSE [outcome |-> "ok", value |-> user_input_value]

(* Lines 95-97.                                                            *)
_sanitize_value(value) ==
    IF value.kind = "str"
      THEN Str(SelectSeq(value.s, LAMBDA c : c # NUL))
      ELSE value

(* Line 28: the validations the comprehension makes, up to the first that  *)
(* raises.                                                                 *)
RECURSIVE Validated(_, _, _)
Validated(inputs, variables, done) ==
    IF variables = <<>> THEN done
    ELSE LET r == _validate_input(inputs, Head(variables)) IN
         IF r.outcome = "ok"
           THEN Validated(inputs, Tail(variables), Append(done, r))
           ELSE Append(done, r)

(* Lines 24-31.                                                            *)
_get_cleaned_inputs(user_inputs, variables) ==
    LET inputs == IF user_inputs.none THEN [k \in {} |-> NoneValue]
                  ELSE user_inputs.items
        validated == Validated(inputs, variables, <<>>)
        last(key) == CHOOSE i \in 1..Len(variables) :
                        /\ variables[i].variable = key
                        /\ \A j \in (i + 1)..Len(variables) :
                              variables[j].variable # key
    IN
    IF \E i \in 1..Len(validated) : validated[i].outcome # "ok"
      THEN [outcome |-> "ValueError", validated |-> validated]
      ELSE [outcome |-> "ok", validated |-> validated,
            value |-> [key \in {variables[i].variable :
                                   i \in 1..Len(variables)} |->
                          _sanitize_value(validated[last(key)].value)]]

GetCleanedInputs ==
    /\ ret = NoCalled
    /\ ret' = _get_cleaned_inputs(args.user_inputs, args.variables)
    /\ UNCHANGED <<args, _client, init_calls, rresult, cache, storage,
                   kresult>>
    /\ UNCHANGED <<queueVars, redisVars, stopVars, data, graphVars,
                   streamVars>>

SpecInputs == CallInit(InputArguments) /\ [][GetCleanedInputs]_vars

(* The input of a variable is missing or empty: there is none, or it is   *)
(* the empty string or the number 0, which Python takes for false alike.   *)
MissingOrEmpty(var) ==
    \/ args.user_inputs.none
    \/ var.variable \notin DOMAIN args.user_inputs.items
    \/ args.user_inputs.items[var.variable] \in {Str(<<>>), Int_(0)}

(* A select variable was given a value that is not one of its options.     *)
NotAnOption(var) ==
    /\ var.type = "select" /\ ~MissingOrEmpty(var)
    /\ \/ args.user_inputs.items[var.variable].kind # "str"
       \/ \A i \in 1..Len(var.options) :
             var.options[i] # args.user_inputs.items[var.variable].s

(* C26: every validation made raises ValueError for a required variable    *)
(* whose input is missing or empty, returns the default, or the empty      *)
(* string without one, for an optional variable whose input is missing or  *)
(* empty, and raises ValueError for a select variable given a value that   *)
(* is not one of its options; the map returned has exactly the configured  *)
(* variables as keys.                                                      *)
C26_InputsValidated ==
    ret.outcome \in {"ok", "ValueError"} =>
        /\ \A k \in 1..Len(ret.validated) :
              LET var == args.variables[k]
                  r == ret.validated[k]
              IN /\ var.required /\ MissingOrEmpty(var)
                     => r.outcome = "ValueError"
                 /\ ~var.required /\ MissingOrEmpty(var)
                     => /\ r.outcome = "ok"
                        /\ r.value = IF var.default = NoneValue
                                       THEN Str(<<>>) ELSE var.default
                 /\ NotAnOption(var) => r.outcome = "ValueError"
        /\ ret.outcome = "ok" =>
              /\ Len(ret.validated) = Len(args.variables)
              /\ DOMAIN ret.value
                     = {args.variables[k].variable :
                           k \in 1..Len(args.variables)}

(* Two variables were cleaned: the optional one without input or default   *)
(* got the empty string, and the input 'z' that is not configured was      *)
(* dropped.                                                                *)
C26_Witness ==
    /\ ret.outcome = "ok"
    /\ ~args.user_inputs.none
    /\ "z" \in DOMAIN args.user_inputs.items
    /\ DOMAIN ret.value = {"x", "y"}
    /\ ret.value["x"] = Str(<<"a">>)
    /\ ret.value["y"] = Str(<<>>)

====
